---- MODULE Spec2Model ----
(***************************************************************************)
(* Unmessify: the projection and advisory engine (computeDerivedData,      *)
(* calculateBurnRateWindow, calculateDailySafeLimit, predictExhaustionDate,*)
(* determineRiskLevel, determineConfidenceLevel, adviceRules,              *)
(* generateAdvice), the storage functions (saveState, loadState,           *)
(* exportState, importState) and the handlers of UnmessifyApp, of          *)
(* src/unnamed/part_000.                                                   *)
(*                                                                         *)
(* Modelling conventions                                                   *)
(*  - A calendar date string "YYYY-MM-DD" is the number of days since      *)
(*    1970-01-01; an instant (a JS Date) is a number of ticks since the    *)
(*    epoch, in UTC, TicksPerDay ticks to the day.                         *)
(*  - new Date("YYYY-MM-DD") is UTC midnight of that day (ParseDate);      *)
(*    getFullYear/getMonth/getDate/getDay read the LOCAL calendar, which   *)
(*    is tz ticks ahead of UTC (formatDate, getDay).  Daylight saving is   *)
(*    not modelled: tz is fixed during a behaviour.                        *)
(*  - every `new Date()` of the code is a separate read of the clock; the  *)
(*    value read is a parameter of the operator that models the function.  *)
(*  - JS numbers are modelled as exact rationals <<n, d>> in lowest terms  *)
(*    with d >= 0 (d = 0: <<1,0>> Infinity, <<-1,0>> -Infinity, <<0,0>>    *)
(*    NaN); IEEE rounding error is not modelled.  Whole amounts (costs,    *)
(*    credits, day counts) are integers.                                   *)
(***************************************************************************)
EXTENDS Integers, Sequences, FiniteSets, TLC

VARIABLES
    profile,    \* the profile handed to the engine
    expenses,   \* the caller-held expense list handed to the engine
    tz,         \* offset of local time from UTC, in ticks
    now,        \* the wall clock, in ticks since the epoch
    ticks,      \* number of ticks the clock has advanced (bounds the run)
    derived,    \* the DerivedMetrics returned by the latest computeDerivedData
    advice,     \* [items |-> the AdviceItem[] generateAdvice returned for derived]
    op,         \* the operation performed by the latest step
    call,       \* unit harness: the function applied and its arguments
    ret,        \* unit harness: the value it returned
    storage,    \* localStorage['unmessify_state']: the saved document, or None
    uuids,      \* number of ids generateUUID has handed out
    modal       \* the open confirm dialog: what its OK button does, or None

vars == <<profile, expenses, tz, now, ticks, derived, advice, op, call, ret,
          storage, uuids, modal>>

-----------------------------------------------------------------------------
(* JS sentinels *)

\* Infinity (daysUntilExhaustion when the burn rate is not positive): larger
\* than every finite day count of the model.
Infinity == 1000000

\* null (predictedExhaustionDate, notes)
Null == -1

\* null in a field that otherwise holds a JS number (maxSpendPerDay, which
\* parseFloat makes a decimal)
NullNumber == <<>>

\* the value of a variable that holds no result yet
None == [none |-> TRUE]

-----------------------------------------------------------------------------
(* Arithmetic on JS numbers *)

Abs(x) == IF x < 0 THEN -x ELSE x

Max(a, b) == IF a >= b THEN a ELSE b

Min(a, b) == IF a <= b THEN a ELSE b

RECURSIVE Gcd(_, _)
Gcd(a, b) == IF b = 0 THEN a ELSE Gcd(b, a % b)

\* n / d as a JS number
Fraction(n, d) ==
    IF d = 0
    THEN <<(IF n > 0 THEN 1 ELSE IF n < 0 THEN -1 ELSE 0), 0>>
    ELSE LET g == Gcd(Abs(n), Abs(d))
             s == IF d < 0 THEN -1 ELSE 1
         IN  <<(s * n) \div g, (s * d) \div g>>

Whole(n) == <<n, 1>>

RMul(x, y) == Fraction(x[1] * y[1], x[2] * y[2])

RDiv(x, y) == Fraction(x[1] * y[2], x[2] * y[1])

RAdd(x, y) == Fraction(x[1] * y[2] + y[1] * x[2], x[2] * y[2])

RSub(x, y) == Fraction(x[1] * y[2] - y[1] * x[2], x[2] * y[2])

\* NaN is the quotient 0/0
IsNaN(x) == x[1] = 0 /\ x[2] = 0

\* x < y and x <= y: false when either side is NaN (-Infinity does not arise)
RLt(x, y) == ~IsNaN(x) /\ ~IsNaN(y) /\ x[1] * y[2] < y[1] * x[2]

RLe(x, y) == ~IsNaN(x) /\ ~IsNaN(y) /\ x[1] * y[2] <= y[1] * x[2]

\* ToNumber of a nullable number, as a comparison applies it: null is 0
ToNumber(x) == IF x = NullNumber THEN <<0, 1>> ELSE x

\* Math.round: the nearest integer, halves rounded up
MathRound(x) ==
    IF x[2] = 0
    THEN (IF x[1] > 0 THEN Infinity ELSE -Infinity)
    ELSE (2 * x[1] + x[2]) \div (2 * x[2])

\* Math.ceil
MathCeil(x) == -((-x[1]) \div x[2])

\* Math.floor
MathFloor(x) == x[1] \div x[2]

-----------------------------------------------------------------------------
(* Exact naturals of any size, little-endian in limbs of 4 decimal digits: *)
(* the products under the square root of calculateDailySafeLimit exceed    *)
(* the 32-bit integers of the model checker.                               *)

RECURSIVE BigCarry(_, _)
BigCarry(s, carry) ==
    IF s = <<>>
    THEN (IF carry = 0 THEN <<>>
          ELSE <<carry % 10000>> \o BigCarry(<<>>, carry \div 10000))
    ELSE LET v == s[1] + carry
         IN  <<v % 10000>> \o BigCarry(Tail(s), v \div 10000)

BigOfInt(n) == BigCarry(<<>>, n)

RECURSIVE BigConv(_, _, _, _)
BigConv(x, y, k, i) ==
    IF i > Len(x) \/ i > k THEN 0
    ELSE (IF k + 1 - i <= Len(y) THEN x[i] * y[k + 1 - i] ELSE 0)
         + BigConv(x, y, k, i + 1)

BigMul(x, y) ==
    IF x = <<>> \/ y = <<>> THEN <<>>
    ELSE BigCarry([k \in 1..(Len(x) + Len(y) - 1) |-> BigConv(x, y, k, 1)], 0)

RECURSIVE BigLeqAt(_, _, _)
BigLeqAt(x, y, i) ==
    IF i = 0 THEN TRUE
    ELSE IF x[i] # y[i] THEN x[i] < y[i]
    ELSE BigLeqAt(x, y, i - 1)

BigLeq(x, y) ==
    IF Len(x) # Len(y) THEN Len(x) < Len(y) ELSE BigLeqAt(x, y, Len(x))

\* A non-negative JS number c * sqrt(r), c and r finite rationals, r > 0:
\* the running value `base` of calculateDailySafeLimit.
Surd(c, r) == [c |-> c, r |-> r]

\* c * sqrt(r) <= k, for a rational k >= 0:  c^2 * r <= k^2
SurdLeq(v, k) ==
    v.c[1] <= 0 \/
    LET lhs == BigMul(BigOfInt(v.c[1]), BigOfInt(k[2]))
        rhs == BigMul(BigOfInt(k[1]), BigOfInt(v.c[2]))
    IN  BigLeq(BigMul(BigMul(lhs, lhs), BigOfInt(v.r[1])),
               BigMul(BigMul(rhs, rhs), BigOfInt(v.r[2])))

\* the largest m in lo..hi-1 with m^2 * L <= R  (holds at lo, fails at hi)
RECURSIVE BigSqrtSearch(_, _, _, _)
BigSqrtSearch(lo, hi, L, R) ==
    IF hi - lo <= 1 THEN lo
    ELSE LET mid == (lo + hi) \div 2
         IN  IF BigLeq(BigMul(BigOfInt(mid * mid), L), R)
             THEN BigSqrtSearch(mid, hi, L, R)
             ELSE BigSqrtSearch(lo, mid, L, R)

\* Math.round(c * sqrt(r)), 0 < r <= 1.  With m = floor(2 |c| sqrt(r)):
\* (m + 1) div 2 for c >= 0; for c < 0, with m' = ceil(2 |c| sqrt(r)), it is
\* -(m' div 2), halves being rounded up.
SurdRound(v) ==
    IF v.r = Whole(1) THEN MathRound(v.c)
    ELSE IF v.c[1] = 0 THEN 0
    ELSE LET p == Abs(v.c[1])
             q == v.c[2]
             L == BigMul(BigMul(BigOfInt(q), BigOfInt(q)), BigOfInt(v.r[2]))
             R == BigMul(BigMul(BigOfInt(2 * p), BigOfInt(2 * p)), BigOfInt(v.r[1]))
             m == BigSqrtSearch(0, ((2 * p) \div q) + 1, L, R)
             exact == BigLeq(R, BigMul(BigOfInt(m * m), L))
         IN  IF v.c[1] > 0 THEN (m + 1) \div 2
             ELSE -((IF exact THEN m ELSE m + 1) \div 2)

-----------------------------------------------------------------------------
(* IEEE 754 binary64 addition, for costs that are not whole numbers          *)
(* (parseFloat of the cost field): a positive double is m * 2^e with         *)
(* 2^52 <= m < 2^53, m an exact natural; zero has the empty mantissa.        *)
(* Sums of whole costs are exact and are computed in the integers (SumCost). *)

BigAdd(x, y) ==
    BigCarry([i \in 1..Max(Len(x), Len(y)) |->
                 (IF i <= Len(x) THEN x[i] ELSE 0)
                 + (IF i <= Len(y) THEN y[i] ELSE 0)], 0)

\* without the zero limbs at the most significant end
RECURSIVE BigTrim(_)
BigTrim(x) ==
    IF x # <<>> /\ x[Len(x)] = 0 THEN BigTrim(SubSeq(x, 1, Len(x) - 1)) ELSE x

\* limbs 1..i of (rem * 10000^i + x[1..i]) div d, for a small d
RECURSIVE BigDivAt(_, _, _, _)
BigDivAt(x, i, rem, d) ==
    IF i = 0 THEN <<>>
    ELSE LET v == rem * 10000 + x[i]
         IN  Append(BigDivAt(x, i - 1, v % d, d), v \div d)

BigDivSmall(x, d) == BigTrim(BigDivAt(x, Len(x), 0, d))

RECURSIVE BigModAt(_, _, _, _)
BigModAt(x, i, rem, d) ==
    IF i = 0 THEN rem ELSE BigModAt(x, i - 1, (rem * 10000 + x[i]) % d, d)

BigModSmall(x, d) == BigModAt(x, Len(x), 0, d)

\* 2^k
RECURSIVE BigPow2(_)
BigPow2(k) ==
    IF k <= 26 THEN BigOfInt(2^k) ELSE BigMul(BigOfInt(2^26), BigPow2(k - 26))

BigShiftLeft(x, k) == BigMul(x, BigPow2(k))

Two52 == BigShiftLeft(BigOfInt(1), 52)

Two53 == BigShiftLeft(BigOfInt(1), 53)

DoubleZero == [m |-> <<>>, e |-> 0]

\* the double nearest to (S + f) * 2^e, ties to even, where f in [0, 1) has
\* first binary digit `half` and a non-zero rest iff `sticky`
RECURSIVE RoundToDouble(_, _, _, _)
RoundToDouble(S, e, half, sticky) ==
    IF S = <<>> THEN DoubleZero
    ELSE IF ~BigLeq(Two52, S)
    THEN RoundToDouble(BigAdd(S, S), e - 1, FALSE, FALSE)
    ELSE IF BigLeq(Two53, S)
    THEN RoundToDouble(BigDivSmall(S, 2), e + 1,
                       BigModSmall(S, 2) = 1, sticky \/ half)
    ELSE LET up == half /\ (sticky \/ BigModSmall(S, 2) = 1)
             m  == IF up THEN BigAdd(S, BigOfInt(1)) ELSE S
         IN  IF m = Two53 THEN [m |-> Two52, e |-> e + 1]
             ELSE [m |-> m, e |-> e]

\* x + y of two non-negative doubles
DoubleAdd(x, y) ==
    IF x.m = <<>> THEN y
    ELSE IF y.m = <<>> THEN x
    ELSE LET e == Min(x.e, y.e)
         IN  RoundToDouble(BigAdd(BigShiftLeft(x.m, x.e - e),
                                  BigShiftLeft(y.m, y.e - e)), e, FALSE, FALSE)

\* parseFloat of a decimal string with one digit after the point, given as
\* its number of tenths: the double nearest to tenths / 10
parseFloatTenths(tenths) ==
    LET scaled == BigShiftLeft(BigOfInt(tenths), 70)
    IN  RoundToDouble(BigDivSmall(scaled, 10), -70, FALSE,
                      BigModSmall(scaled, 10) # 0)

\* costs.reduce((sum, cost) => sum + cost, 0) in doubles, left to right
RECURSIVE SumCostDouble(_, _)
SumCostDouble(costs, sum) ==
    IF costs = <<>> THEN sum
    ELSE SumCostDouble(Tail(costs), DoubleAdd(sum, costs[1]))

-----------------------------------------------------------------------------
(* Dates *)

\* 1000 * 60 * 60 * 24 milliseconds, in ticks of 12 hours
TicksPerDay == 2

\* new Date("YYYY-MM-DD"): UTC midnight of the day
ParseDate(dateStr) == dateStr * TicksPerDay

\* formatDate(date): the local calendar day of an instant, as "YYYY-MM-DD"
formatDate(date) == (date + tz) \div TicksPerDay

\* Date.prototype.getDay(): 0 is Sunday; 1970-01-01 was a Thursday
getDay(date) == (formatDate(date) + 4) % 7

\* d.setDate(d.getDate() + n): n local calendar days later, same time of day
AddDays(date, n) == date + n * TicksPerDay

-----------------------------------------------------------------------------
(* CALCULATION FUNCTIONS *)

\* expenses.reduce((sum, exp) => sum + exp.cost, 0)
RECURSIVE SumCost(_)
SumCost(exps) ==
    IF exps = <<>> THEN 0 ELSE exps[1].cost + SumCost(Tail(exps))

\* calculateBurnRateWindow(expenses, windowDays, startDate); `today` is the
\* value of its own `new Date()`
calculateBurnRateWindow(exps, windowDays, startDate, today) ==
    LET windowStart == AddDays(today, -windowDays + 1)
        effectiveStart ==
            IF windowStart > startDate THEN windowStart ELSE startDate
        InWindow(exp) ==
            LET expDate == ParseDate(exp.date)
            IN  expDate >= effectiveStart /\ expDate <= today
        windowExpenses == SelectSeq(exps, InWindow)
        windowTotal == SumCost(windowExpenses)
        actualWindowDays ==
            Max(1, MathFloor(Fraction(today - effectiveStart, TicksPerDay)) + 1)
    IN  Fraction(windowTotal, actualWindowDays)

\* toleranceFactors[profile.preferences.riskTolerance] || 1.0
toleranceFactor(riskTolerance) ==
    CASE riskTolerance = "low"    -> Fraction(85, 100)
      [] riskTolerance = "medium" -> Whole(1)
      [] riskTolerance = "high"   -> Fraction(11, 10)
      [] OTHER                    -> Whole(1)

\* a variant that applies the cap before the boosts
calculateDailySafeLimit_capFirst(prof, exps, derivedBase, today) ==
    LET prefs == prof.preferences
        base1 == Fraction(derivedBase.remainingCredits, derivedBase.remainingDays)
        base2 ==
            IF /\ RLt(Whole(0), derivedBase.averageDailySpend)
               /\ RLt(Whole(0), derivedBase.targetBurnRate)
               /\ RLt(derivedBase.targetBurnRate, derivedBase.averageDailySpend)
            THEN Surd(base1, RDiv(derivedBase.targetBurnRate,
                                  derivedBase.averageDailySpend))
            ELSE Surd(base1, Whole(1))
        base3 ==
            IF /\ prefs.maxSpendPerDay # NullNumber
               /\ RLt(Whole(0), prefs.maxSpendPerDay)
               /\ ~SurdLeq(base2, prefs.maxSpendPerDay)
            THEN Surd(prefs.maxSpendPerDay, Whole(1))
            ELSE base2
        isWeekend == getDay(today) = 0 \/ getDay(today) = 6
        boosts ==
            RMul(toleranceFactor(prefs.riskTolerance),
                 RMul(IF prefs.weekendBoost /\ isWeekend
                      THEN Fraction(115, 100) ELSE Whole(1),
                      IF prefs.examMode THEN Fraction(105, 100) ELSE Whole(1)))
    IN  IF derivedBase.remainingDays <= 0 THEN 0
        ELSE Max(0, SurdRound(Surd(RMul(base3.c, boosts), base3.r)))

\* a variant whose boosts add up against the unmodified base
calculateDailySafeLimit_additiveBoosts(prof, exps, derivedBase, today) ==
    LET prefs == prof.preferences
        base1 == Fraction(derivedBase.remainingCredits, derivedBase.remainingDays)
        base2 ==
            IF /\ RLt(Whole(0), derivedBase.averageDailySpend)
               /\ RLt(Whole(0), derivedBase.targetBurnRate)
               /\ RLt(derivedBase.targetBurnRate, derivedBase.averageDailySpend)
            THEN Surd(base1, RDiv(derivedBase.targetBurnRate,
                                  derivedBase.averageDailySpend))
            ELSE Surd(base1, Whole(1))
        isWeekend == getDay(today) = 0 \/ getDay(today) = 6
        boosts ==
            RAdd(toleranceFactor(prefs.riskTolerance),
                 RAdd(IF prefs.weekendBoost /\ isWeekend
                      THEN Fraction(15, 100) ELSE Whole(0),
                      IF prefs.examMode THEN Fraction(5, 100) ELSE Whole(0)))
        base5 == Surd(RMul(base2.c, boosts), base2.r)
        base6 ==
            IF /\ prefs.maxSpendPerDay # NullNumber
               /\ RLt(Whole(0), prefs.maxSpendPerDay)
               /\ ~SurdLeq(base5, prefs.maxSpendPerDay)
            THEN Surd(prefs.maxSpendPerDay, Whole(1))
            ELSE base5
    IN  IF derivedBase.remainingDays <= 0 THEN 0
        ELSE Max(0, SurdRound(base6))

\* a variant without the adaptive dampening
calculateDailySafeLimit_noDampening(prof, exps, derivedBase, today) ==
    LET prefs == prof.preferences
        base1 == Fraction(derivedBase.remainingCredits, derivedBase.remainingDays)
        isWeekend == getDay(today) = 0 \/ getDay(today) = 6
        boosts ==
            RMul(toleranceFactor(prefs.riskTolerance),
                 RMul(IF prefs.weekendBoost /\ isWeekend
                      THEN Fraction(115, 100) ELSE Whole(1),
                      IF prefs.examMode THEN Fraction(105, 100) ELSE Whole(1)))
        base5 == RMul(base1, boosts)
        base6 ==
            IF /\ prefs.maxSpendPerDay # NullNumber
               /\ RLt(Whole(0), prefs.maxSpendPerDay)
               /\ RLt(prefs.maxSpendPerDay, base5)
            THEN prefs.maxSpendPerDay
            ELSE base5
    IN  IF derivedBase.remainingDays <= 0 THEN 0
        ELSE Max(0, MathRound(base6))

\* calculateDailySafeLimit(profile, expenses, derivedBase); `today` is the
\* value of its own `new Date()`
calculateDailySafeLimit(prof, exps, derivedBase, today) ==
    LET remainingCredits  == derivedBase.remainingCredits
        remainingDays     == derivedBase.remainingDays
        averageDailySpend == derivedBase.averageDailySpend
        targetBurnRate    == derivedBase.targetBurnRate
        prefs             == prof.preferences
        base1 == Fraction(remainingCredits, remainingDays)
        \* base / Math.pow(overshootRatio, 0.5)
        base2 ==
            IF /\ RLt(Whole(0), averageDailySpend)
               /\ RLt(Whole(0), targetBurnRate)
               /\ RLt(targetBurnRate, averageDailySpend)
            THEN Surd(base1, RDiv(targetBurnRate, averageDailySpend))
            ELSE Surd(base1, Whole(1))
        base3 == Surd(RMul(base2.c, toleranceFactor(prefs.riskTolerance)), base2.r)
        isWeekend == getDay(today) = 0 \/ getDay(today) = 6
        base4 ==
            IF prefs.weekendBoost /\ isWeekend
            THEN Surd(RMul(base3.c, Fraction(115, 100)), base3.r)
            ELSE base3
        base5 ==
            IF prefs.examMode
            THEN Surd(RMul(base4.c, Fraction(105, 100)), base4.r)
            ELSE base4
        \* Math.min(base, maxSpendPerDay)
        base6 ==
            IF /\ prefs.maxSpendPerDay # NullNumber
               /\ RLt(Whole(0), prefs.maxSpendPerDay)
            THEN (IF SurdLeq(base5, prefs.maxSpendPerDay)
                  THEN base5
                  ELSE Surd(prefs.maxSpendPerDay, Whole(1)))
            ELSE base5
    IN  IF remainingDays <= 0 THEN 0
        ELSE Max(0, SurdRound(base6))

\* a variant that tests the burn rate before the remaining credits
predictExhaustionDate_rateFirst(remainingCredits, burnRate, today, endDate) ==
    IF RLe(burnRate, Whole(0))
    THEN [predictedExhaustionDate |-> Null,
          daysUntilExhaustion     |-> Infinity]
    ELSE IF remainingCredits <= 0
    THEN [predictedExhaustionDate |-> formatDate(today),
          daysUntilExhaustion     |-> 0]
    ELSE LET daysUntilExhaustion ==
                 MathCeil(RDiv(Whole(remainingCredits), burnRate))
             exhaustionDate == AddDays(today, daysUntilExhaustion)
         IN  [predictedExhaustionDate |-> formatDate(exhaustionDate),
              daysUntilExhaustion     |-> daysUntilExhaustion]

\* predictExhaustionDate(remainingCredits, burnRate, today, endDate)
predictExhaustionDate(remainingCredits, burnRate, today, endDate) ==
    IF remainingCredits <= 0
    THEN [predictedExhaustionDate |-> formatDate(today),
          daysUntilExhaustion     |-> 0]
    ELSE IF RLe(burnRate, Whole(0))
    THEN [predictedExhaustionDate |-> Null,
          daysUntilExhaustion     |-> Infinity]
    ELSE LET daysUntilExhaustion ==
                 MathCeil(RDiv(Whole(remainingCredits), burnRate))
             exhaustionDate == AddDays(today, daysUntilExhaustion)
         IN  [predictedExhaustionDate |-> formatDate(exhaustionDate),
              daysUntilExhaustion     |-> daysUntilExhaustion]

\* formatDate of an Invalid Date: "NaN-NaN-NaN"
InvalidDateString == -2

\* n / x <= k, for a whole n and a positive double x = m * 2^e
QuotientAtMost(n, x, k) ==
    BigLeq(BigMul(BigOfInt(n), BigPow2(Max(-x.e, 0))),
           BigMul(BigMul(BigOfInt(k), x.m), BigPow2(Max(x.e, 0))))

\* n / x is Infinity in doubles, for a whole n > 0 and a positive double
\* x = m * 2^e: the exact quotient is at least (2^54 - 1) * 2^970, half an
\* ulp above the largest double
QuotientIsInfinite(n, x) ==
    /\ x.e <= -970
    /\ BigLeq(BigMul(x.m, BigPow2(54)),
              BigAdd(BigMul(BigOfInt(n), BigPow2(-x.e - 970)), x.m))

\* the least k in lo+1..hi with n / x <= k  (fails at lo, holds at hi)
RECURSIVE CeilSearch(_, _, _, _)
CeilSearch(n, x, lo, hi) ==
    IF hi - lo <= 1 THEN hi
    ELSE LET mid == (lo + hi) \div 2
         IN  IF QuotientAtMost(n, x, mid) THEN CeilSearch(n, x, lo, mid)
             ELSE CeilSearch(n, x, mid, hi)

\* Math.ceil(remainingCredits / burnRate) for a whole remainingCredits > 0
\* and a positive double burnRate, where the quotient is an exact double
\* below Infinity - 1 or overflows
CeilOfQuotient(remainingCredits, burnRate) ==
    IF QuotientIsInfinite(remainingCredits, burnRate) THEN Infinity
    ELSE CeilSearch(remainingCredits, burnRate, 0, Infinity - 1)

\* predictExhaustionDate(remainingCredits, burnRate, today, endDate) for a
\* burnRate that is a non-negative double
predictExhaustionDateOfDouble(remainingCredits, burnRate, today, endDate) ==
    IF remainingCredits <= 0
    THEN [predictedExhaustionDate |-> formatDate(today),
          daysUntilExhaustion     |-> 0]
    ELSE IF burnRate.m = <<>>
    THEN [predictedExhaustionDate |-> Null,
          daysUntilExhaustion     |-> Infinity]
    ELSE LET daysUntilExhaustion == CeilOfQuotient(remainingCredits, burnRate)
         IN  [predictedExhaustionDate |->
                  IF daysUntilExhaustion = Infinity THEN InvalidDateString
                  ELSE formatDate(AddDays(today, daysUntilExhaustion)),
              daysUntilExhaustion     |-> daysUntilExhaustion]

\* a variant without the exhaustion rule
determineRiskLevel_noExhaustion(totalSpent, monthlyCredits, daysElapsed, monthDays, daysUntilExhaustion, remainingDays, thresholds) ==
    LET creditsUsedRatio ==
            IF monthlyCredits > 0 THEN Fraction(totalSpent, monthlyCredits)
            ELSE Whole(0)
        timeElapsedRatio ==
            IF monthDays > 0 THEN Fraction(daysElapsed, monthDays)
            ELSE Whole(0)
    IN  IF RLe(thresholds.danger, creditsUsedRatio) THEN "danger"
        ELSE IF RLe(thresholds.warning, creditsUsedRatio) THEN "watch"
        ELSE IF RLt(RAdd(timeElapsedRatio, Fraction(15, 100)), creditsUsedRatio)
        THEN "danger"
        ELSE IF RLt(RAdd(timeElapsedRatio, Fraction(5, 100)), creditsUsedRatio)
        THEN "watch"
        ELSE "safe"

\* a variant that tests the pace of spending before the thresholds
determineRiskLevel_paceFirst(totalSpent, monthlyCredits, daysElapsed, monthDays, daysUntilExhaustion, remainingDays, thresholds) ==
    LET creditsUsedRatio ==
            IF monthlyCredits > 0 THEN Fraction(totalSpent, monthlyCredits)
            ELSE Whole(0)
        timeElapsedRatio ==
            IF monthDays > 0 THEN Fraction(daysElapsed, monthDays)
            ELSE Whole(0)
    IN  IF daysUntilExhaustion # Infinity
           /\ daysUntilExhaustion < remainingDays - 3
        THEN "danger"
        ELSE IF RLt(RAdd(timeElapsedRatio, Fraction(15, 100)), creditsUsedRatio)
        THEN "danger"
        ELSE IF RLt(RAdd(timeElapsedRatio, Fraction(5, 100)), creditsUsedRatio)
        THEN "watch"
        ELSE IF RLe(thresholds.danger, creditsUsedRatio) THEN "danger"
        ELSE IF RLe(thresholds.warning, creditsUsedRatio) THEN "watch"
        ELSE "safe"

\* a variant that tests the warning threshold before the danger threshold
determineRiskLevel_warningFirst(totalSpent, monthlyCredits, daysElapsed, monthDays, daysUntilExhaustion, remainingDays, thresholds) ==
    LET creditsUsedRatio ==
            IF monthlyCredits > 0 THEN Fraction(totalSpent, monthlyCredits)
            ELSE Whole(0)
        timeElapsedRatio ==
            IF monthDays > 0 THEN Fraction(daysElapsed, monthDays)
            ELSE Whole(0)
    IN  IF daysUntilExhaustion # Infinity
           /\ daysUntilExhaustion < remainingDays - 3
        THEN "danger"
        ELSE IF RLe(ToNumber(thresholds.warning), creditsUsedRatio) THEN "watch"
        ELSE IF RLe(ToNumber(thresholds.danger), creditsUsedRatio) THEN "danger"
        ELSE IF RLt(RAdd(timeElapsedRatio, Fraction(15, 100)), creditsUsedRatio)
        THEN "danger"
        ELSE IF RLt(RAdd(timeElapsedRatio, Fraction(5, 100)), creditsUsedRatio)
        THEN "watch"
        ELSE "safe"

\* determineRiskLevel(totalSpent, monthlyCredits, daysElapsed, monthDays,
\*                    daysUntilExhaustion, remainingDays, thresholds)
determineRiskLevel(totalSpent, monthlyCredits, daysElapsed, monthDays, daysUntilExhaustion, remainingDays, thresholds) ==
    LET creditsUsedRatio ==
            IF monthlyCredits > 0 THEN Fraction(totalSpent, monthlyCredits)
            ELSE Whole(0)
        timeElapsedRatio ==
            IF monthDays > 0 THEN Fraction(daysElapsed, monthDays)
            ELSE Whole(0)
    IN  IF daysUntilExhaustion # Infinity
           /\ daysUntilExhaustion < remainingDays - 3
        THEN "danger"
        ELSE IF RLe(ToNumber(thresholds.danger), creditsUsedRatio) THEN "danger"
        ELSE IF RLe(ToNumber(thresholds.warning), creditsUsedRatio) THEN "watch"
        ELSE IF RLt(RAdd(timeElapsedRatio, Fraction(15, 100)), creditsUsedRatio)
        THEN "danger"
        ELSE IF RLt(RAdd(timeElapsedRatio, Fraction(5, 100)), creditsUsedRatio)
        THEN "watch"
        ELSE "safe"

\* determineConfidenceLevel(expenseCount, daysElapsed)
determineConfidenceLevel(expenseCount, daysElapsed) ==
    IF expenseCount < 3 \/ daysElapsed < 2 THEN "low"
    ELSE IF expenseCount < 10 \/ daysElapsed < 5 THEN "medium"
    ELSE "high"

\* Math.max(0, Math.floor((today - startDate) / (1000 * 60 * 60 * 24)) + 1)
daysElapsedOf(today, startDate) ==
    Max(0, MathFloor(Fraction(today - startDate, TicksPerDay)) + 1)

\* a variant that counts today among the remaining days
remainingDaysOf_inclusive(monthDays, daysElapsed) ==
    Max(0, monthDays - daysElapsed + 1)

\* Math.max(0, profile.monthDays - daysElapsed)
remainingDaysOf(monthDays, daysElapsed) == Max(0, monthDays - daysElapsed)

\* a variant without the clamp at zero
remainingCreditsOf_unclamped(monthlyCredits, totalSpent) ==
    monthlyCredits - totalSpent

\* burnRate7d > 0 ? burnRate7d : burnRateOverall
forecastBurnRate(burnRate7d, burnRateOverall) ==
    IF RLt(Whole(0), burnRate7d) THEN burnRate7d ELSE burnRateOverall

\* Math.max(0, profile.monthlyCredits - totalSpent)
remainingCreditsOf(monthlyCredits, totalSpent) ==
    Max(0, monthlyCredits - totalSpent)

\* computeDerivedData(profile, expenses).  The clock is read four times:
\* `today` at its first line, t7 and t3 inside the two calls of
\* calculateBurnRateWindow, tS inside calculateDailySafeLimit.
computeDerivedData(prof, exps, today, t7, t3, tS) ==
    LET todayStr  == formatDate(today)
        startDate == ParseDate(prof.startDate)
        endDate   == AddDays(startDate, prof.monthDays - 1)
        daysElapsed == daysElapsedOf(today, startDate)
        remainingDays == remainingDaysOf(prof.monthDays, daysElapsed)
        totalSpent == SumCost(exps)
        remainingCredits == remainingCreditsOf(prof.monthlyCredits, totalSpent)
        IsToday(exp) == exp.date = todayStr
        todayExpenses == SelectSeq(exps, IsToday)
        todaySpend == SumCost(todayExpenses)
        burnRateOverall ==
            IF daysElapsed > 0 THEN Fraction(totalSpent, daysElapsed)
            ELSE Whole(0)
        burnRate7d == calculateBurnRateWindow(exps, 7, startDate, t7)
        burnRate3d == calculateBurnRateWindow(exps, 3, startDate, t3)
        targetBurnRate == Fraction(prof.monthlyCredits, prof.monthDays)
        dailySafeLimit ==
            calculateDailySafeLimit(prof, exps,
                [remainingCredits  |-> remainingCredits,
                 remainingDays     |-> remainingDays,
                 averageDailySpend |-> burnRateOverall,
                 targetBurnRate    |-> targetBurnRate], tS)
        exhaustion ==
            predictExhaustionDate(remainingCredits,
                forecastBurnRate(burnRate7d, burnRateOverall),
                today, endDate)
        projectedTotalSpend == RMul(burnRateOverall, Whole(prof.monthDays))
        surplusOrDeficit ==
            RSub(Whole(prof.monthlyCredits), projectedTotalSpend)
        riskLevel ==
            determineRiskLevel(totalSpent, prof.monthlyCredits, daysElapsed,
                prof.monthDays, exhaustion.daysUntilExhaustion, remainingDays,
                prof.preferences.notificationThresholds)
        creditsUsedRatio ==
            IF prof.monthlyCredits > 0
            THEN Fraction(totalSpent, prof.monthlyCredits) ELSE Whole(0)
        timeElapsedRatio ==
            IF prof.monthDays > 0
            THEN Fraction(daysElapsed, prof.monthDays) ELSE Whole(0)
        confidenceLevel == determineConfidenceLevel(Len(exps), daysElapsed)
    IN  [today                   |-> todayStr,
         daysElapsed             |-> daysElapsed,
         remainingDays           |-> remainingDays,
         totalSpent              |-> totalSpent,
         remainingCredits        |-> remainingCredits,
         todaySpend              |-> todaySpend,
         dailySafeLimit          |-> dailySafeLimit,
         averageDailySpend       |-> burnRateOverall,
         burnRate7d              |-> burnRate7d,
         burnRate3d              |-> burnRate3d,
         burnRateOverall         |-> burnRateOverall,
         targetBurnRate          |-> targetBurnRate,
         predictedExhaustionDate |-> exhaustion.predictedExhaustionDate,
         daysUntilExhaustion     |-> exhaustion.daysUntilExhaustion,
         riskLevel               |-> riskLevel,
         surplusOrDeficit        |-> surplusOrDeficit,
         creditsUsedRatio        |-> creditsUsedRatio,
         timeElapsedRatio        |-> timeElapsedRatio,
         confidenceLevel         |-> confidenceLevel,
         endDate                 |-> formatDate(endDate)]

-----------------------------------------------------------------------------
(* ADVICE ENGINE *)

\* the adviceRules table: id, severity, category and title of each rule, in
\* table order (`when` and `message` are the operators When and Message)
adviceRules == <<
    [id |-> "on_track",                 severity |-> "low",
     category |-> "positive",           title |-> "Great Progress"],
    [id |-> "overspending_early",       severity |-> "high",
     category |-> "spend_control",      title |-> "Early Overspending"],
    [id |-> "exhaustion_warning",       severity |-> "high",
     category |-> "prediction",         title |-> "Credit Exhaustion Alert"],
    [id |-> "frequent_chicken",         severity |-> "medium",
     category |-> "category_mix",       title |-> "Chicken Frequency"],
    [id |-> "dessert_spending",         severity |-> "medium",
     category |-> "luxury",             title |-> "Dessert Alert"],
    [id |-> "daily_limit_exceeded",     severity |-> "high",
     category |-> "daily",              title |-> "Daily Limit Exceeded"],
    [id |-> "weekend_boost_suggestion", severity |-> "low",
     category |-> "tip",                title |-> "Weekend Boost"],
    [id |-> "surplus_projection",       severity |-> "low",
     category |-> "positive",           title |-> "Surplus Projected"],
    [id |-> "queue_risk",               severity |-> "high",
     category |-> "warning",            title |-> "Queue Risk"] >>

\* expenses.filter(e => e.itemType === itemType)
OfItemType(exps, itemType) ==
    LET Is(e) == e.itemType = itemType IN SelectSeq(exps, Is)

\* a variant whose on_track rule does not look at the risk level
When_onTrackAtAnyRisk(id, prof, d, exps, today) ==
    CASE id = "on_track" -> Len(exps) >= 3
      [] id = "overspending_early" ->
            /\ RLe(Whole(d.daysElapsed), Fraction(prof.monthDays, 2))
            /\ RLt(RAdd(d.timeElapsedRatio, Fraction(1, 10)), d.creditsUsedRatio)
      [] id = "exhaustion_warning" ->
            /\ d.daysUntilExhaustion # Infinity
            /\ d.daysUntilExhaustion < d.remainingDays
      [] id = "frequent_chicken" ->
            Len(OfItemType(exps, "chicken")) >= 5
      [] id = "dessert_spending" ->
            RLt(RMul(Whole(prof.monthlyCredits), Fraction(1, 10)),
                Whole(SumCost(OfItemType(exps, "dessert"))))
      [] id = "daily_limit_exceeded" ->
            d.todaySpend > d.dailySafeLimit /\ d.dailySafeLimit > 0
      [] id = "weekend_boost_suggestion" ->
            LET isWeekday == getDay(today) >= 1 /\ getDay(today) <= 5
            IN  /\ ~prof.preferences.weekendBoost
                /\ isWeekday
                /\ RLt(Whole(d.todaySpend),
                       RMul(Whole(d.dailySafeLimit), Fraction(8, 10)))
      [] id = "surplus_projection" ->
            /\ RLt(RMul(Whole(prof.monthlyCredits), Fraction(1, 10)),
                   d.surplusOrDeficit)
            /\ Len(exps) >= 5
      [] id = "queue_risk" ->
            d.riskLevel = "danger" /\ d.remainingCredits < 500

\* a variant whose exhaustion_warning rule fires also when credits last
\* exactly to the end of the period
When_exhaustionAtPeriodEnd(id, prof, d, exps, today) ==
    CASE id = "on_track" ->
            d.riskLevel = "safe" /\ Len(exps) >= 3
      [] id = "overspending_early" ->
            /\ RLe(Whole(d.daysElapsed), Fraction(prof.monthDays, 2))
            /\ RLt(RAdd(d.timeElapsedRatio, Fraction(1, 10)), d.creditsUsedRatio)
      [] id = "exhaustion_warning" ->
            /\ d.daysUntilExhaustion # Infinity
            /\ d.daysUntilExhaustion <= d.remainingDays
      [] id = "frequent_chicken" ->
            Len(OfItemType(exps, "chicken")) >= 5
      [] id = "dessert_spending" ->
            RLt(RMul(Whole(prof.monthlyCredits), Fraction(1, 10)),
                Whole(SumCost(OfItemType(exps, "dessert"))))
      [] id = "daily_limit_exceeded" ->
            d.todaySpend > d.dailySafeLimit /\ d.dailySafeLimit > 0
      [] id = "weekend_boost_suggestion" ->
            LET isWeekday == getDay(today) >= 1 /\ getDay(today) <= 5
            IN  /\ ~prof.preferences.weekendBoost
                /\ isWeekday
                /\ RLt(Whole(d.todaySpend),
                       RMul(Whole(d.dailySafeLimit), Fraction(8, 10)))
      [] id = "surplus_projection" ->
            /\ RLt(RMul(Whole(prof.monthlyCredits), Fraction(1, 10)),
                   d.surplusOrDeficit)
            /\ Len(exps) >= 5
      [] id = "queue_risk" ->
            d.riskLevel = "danger" /\ d.remainingCredits < 500

\* rule.when(profile, derived, expenses); `today` is the value of the
\* `new Date()` inside the weekend_boost_suggestion rule
When(id, prof, d, exps, today) ==
    CASE id = "on_track" ->
            d.riskLevel = "safe" /\ Len(exps) >= 3
      [] id = "overspending_early" ->
            /\ RLe(Whole(d.daysElapsed), Fraction(prof.monthDays, 2))
            /\ RLt(RAdd(d.timeElapsedRatio, Fraction(1, 10)), d.creditsUsedRatio)
      [] id = "exhaustion_warning" ->
            /\ d.daysUntilExhaustion # Infinity
            /\ d.daysUntilExhaustion < d.remainingDays
      [] id = "frequent_chicken" ->
            Len(OfItemType(exps, "chicken")) >= 5
      [] id = "dessert_spending" ->
            RLt(RMul(Whole(prof.monthlyCredits), Fraction(1, 10)),
                Whole(SumCost(OfItemType(exps, "dessert"))))
      [] id = "daily_limit_exceeded" ->
            d.todaySpend > d.dailySafeLimit /\ d.dailySafeLimit > 0
      [] id = "weekend_boost_suggestion" ->
            LET isWeekday == getDay(today) >= 1 /\ getDay(today) <= 5
            IN  /\ ~prof.preferences.weekendBoost
                /\ isWeekday
                /\ RLt(Whole(d.todaySpend),
                       RMul(Whole(d.dailySafeLimit), Fraction(8, 10)))
      [] id = "surplus_projection" ->
            /\ RLt(RMul(Whole(prof.monthlyCredits), Fraction(1, 10)),
                   d.surplusOrDeficit)
            /\ Len(exps) >= 5
      [] id = "queue_risk" ->
            d.riskLevel = "danger" /\ d.remainingCredits < 500

\* rule.message(profile, derived, expenses): the values the template prints
Message(id, prof, d, exps) ==
    CASE id = "on_track" ->
            [amount |-> Abs(MathRound(d.surplusOrDeficit)),
             word   |-> IF RLe(Whole(0), d.surplusOrDeficit)
                        THEN "surplus" ELSE "to spare"]
      [] id = "overspending_early" ->
            [usedPercent |-> MathRound(RMul(d.creditsUsedRatio, Whole(100))),
             timePercent |-> MathRound(RMul(d.timeElapsedRatio, Whole(100))),
             days        |-> Max(3, MathRound(Fraction(d.remainingDays, 3)))]
      [] id = "exhaustion_warning" ->
            [shortfall |-> d.remainingDays - d.daysUntilExhaustion,
             dailyRate |-> MathRound(Fraction(d.remainingCredits, d.remainingDays))]
      [] id = "frequent_chicken" ->
            LET chickenCost == SumCost(OfItemType(exps, "chicken"))
            IN  [chickenCount |-> Len(OfItemType(exps, "chicken")),
                 chickenCost  |-> chickenCost,
                 saving       |-> MathRound(RMul(Whole(chickenCost), Fraction(3, 10)))]
      [] id = "dessert_spending" ->
            LET dessertTotal == SumCost(OfItemType(exps, "dessert"))
            IN  [dessertTotal |-> dessertTotal,
                 percent      |-> MathRound(RMul(Fraction(dessertTotal, prof.monthlyCredits),
                                                 Whole(100)))]
      [] id = "daily_limit_exceeded" ->
            [todaySpend |-> d.todaySpend, dailySafeLimit |-> d.dailySafeLimit]
      [] id = "weekend_boost_suggestion" ->
            [tip |-> "Enable Weekend Boost"]
      [] id = "surplus_projection" ->
            [amount |-> MathRound(d.surplusOrDeficit)]
      [] id = "queue_risk" ->
            [remainingCredits |-> d.remainingCredits,
             remainingDays    |-> d.remainingDays]

\* const severityOrder = { high: 0, medium: 1, low: 2 }
severityOrder(severity) ==
    CASE severity = "high" -> 0 [] severity = "medium" -> 1 [] severity = "low" -> 2

\* the comparator of triggeredRules.sort
compareSeverity(a, b) == severityOrder(a.severity) - severityOrder(b.severity)

\* a variant of the insertion that puts an item before the items it ties with
RECURSIVE InsertSorted_beforeEquals(_, _)
InsertSorted_beforeEquals(sorted, item) ==
    IF sorted = <<>> THEN <<item>>
    ELSE IF compareSeverity(sorted[1], item) >= 0 THEN <<item>> \o sorted
    ELSE <<sorted[1]>> \o InsertSorted_beforeEquals(Tail(sorted), item)

\* Array.prototype.sort is stable (ES2019; every browser the README supports):
\* an item goes behind every item that does not compare greater than it
RECURSIVE InsertSorted(_, _)
InsertSorted(sorted, item) ==
    IF sorted = <<>> THEN <<item>>
    ELSE IF compareSeverity(sorted[1], item) > 0 THEN <<item>> \o sorted
    ELSE <<sorted[1]>> \o InsertSorted(Tail(sorted), item)

RECURSIVE SortItems(_, _)
SortItems(sorted, rest) ==
    IF rest = <<>> THEN sorted
    ELSE SortItems(InsertSorted(sorted, rest[1]), Tail(rest))

\* adviceRules.filter(rule => rule.when(...)).map(rule => ({...}))
triggeredRules(prof, d, exps, today) ==
    LET Fires(rule) == When(rule.id, prof, d, exps, today)
        fired == SelectSeq(adviceRules, Fires)
    IN  [i \in 1..Len(fired) |->
            [id       |-> fired[i].id,
             title    |-> fired[i].title,
             message  |-> Message(fired[i].id, prof, d, exps),
             severity |-> fired[i].severity,
             category |-> fired[i].category]]

\* a variant that keeps the top 3 items
generateAdvice_topThree(prof, d, exps, today) ==
    LET sorted == SortItems(<<>>, triggeredRules(prof, d, exps, today))
    IN  SubSeq(sorted, 1, Min(3, Len(sorted)))

\* a variant that does not sort before it truncates
generateAdvice_unsorted(prof, d, exps, today) ==
    LET fired == triggeredRules(prof, d, exps, today)
    IN  SubSeq(fired, 1, Min(5, Len(fired)))

\* generateAdvice(profile, derived, expenses)
generateAdvice(prof, d, exps, today) ==
    LET sorted == SortItems(<<>>, triggeredRules(prof, d, exps, today))
    IN  SubSeq(sorted, 1, Min(5, Len(sorted)))

-----------------------------------------------------------------------------
(* The engine under its callers: a profile and an expense list are handed *)
(* to computeDerivedData and then, with the metrics, to generateAdvice,   *)
(* while the wall clock runs.                                              *)

\* longest expense list handed to the engine
MaxExpenses == 2

\* number of ticks the clock advances in a behaviour
MaxTicks == 1

\* the first day of the accounting period: 2026-10-01, a Thursday
StartDates == {20727}

\* createDefaultProfile().preferences
DefaultPreferences ==
    [riskTolerance  |-> "medium",
     weekendBoost   |-> FALSE,
     examMode       |-> FALSE,
     maxSpendPerDay |-> NullNumber,
     vegetarian     |-> FALSE,
     notificationThresholds |->
         [warning |-> Fraction(7, 10), danger |-> Fraction(9, 10)]]

\* the preferences the engine is exercised with
PreferenceChoices ==
    { DefaultPreferences,
      [DefaultPreferences EXCEPT !.riskTolerance = "high",
                                 !.weekendBoost = TRUE,
                                 !.examMode = TRUE],
      [DefaultPreferences EXCEPT !.riskTolerance = "low",
                                 !.weekendBoost = TRUE,
                                 !.maxSpendPerDay = Whole(150)] }

\* the profiles the engine is exercised with: the README's example profile
\* under each choice of preferences, and the degenerate profile
Profiles ==
    { [userType       |-> "hostel_student",
       monthlyCredits |-> 6000,
       monthDays      |-> 30,
       startDate      |-> s,
       preferences    |-> prefs] : s \in StartDates, prefs \in PreferenceChoices }
    \cup
    { [userType       |-> "hostel_student",
       monthlyCredits |-> 0,
       monthDays      |-> 0,
       startDate      |-> s,
       preferences    |-> DefaultPreferences] : s \in StartDates }

\* what an expense record can be: day of the period, item type, cost
ExpenseKinds ==
    { [day |-> 0,  itemType |-> "chicken", cost |-> 500],
      [day |-> 0,  itemType |-> "veg",     cost |-> 4400],
      [day |-> 17, itemType |-> "dessert", cost |-> 700] }

\* createExpenseEntry(data), with the id it generates
createExpenseEntry(id, date, itemType, cost) ==
    [id       |-> id,
     date     |-> date,
     mealType |-> "lunch",
     itemType |-> itemType,
     quantity |-> 1,
     cost     |-> cost,
     notes    |-> Null]

\* the expense lists of at most MaxExpenses records, in every order
ExpenseLists(startDate) ==
    { [i \in 1..Len(ks) |->
          createExpenseEntry(i, startDate + ks[i].day, ks[i].itemType, ks[i].cost)]
      : ks \in UNION { [1..n -> ExpenseKinds] : n \in 0..MaxExpenses } }

\* the days of the period on which a behaviour starts: the day before the
\* period, its first day, a Saturday, the 20th day, the last day
StartOffsets == {-1, 0, 2, 19, 29}

TimeZones == {-1, 0, 1}

Init ==
    /\ profile \in Profiles
    /\ expenses \in ExpenseLists(profile.startDate)
    /\ tz \in TimeZones
    /\ now \in { ParseDate(profile.startDate + o) + h :
                     o \in StartOffsets, h \in 0..(TicksPerDay - 1) }
    /\ ticks = 0
    /\ derived = None
    /\ advice = None
    /\ op = "init"
    /\ call = None
    /\ ret = None
    /\ storage = None
    /\ uuids = 0
    /\ modal = None

\* the clock advances by one tick
Tick ==
    /\ ticks < MaxTicks
    /\ now' = now + 1
    /\ ticks' = ticks + 1
    /\ op' = "Tick"
    /\ UNCHANGED <<modal, storage, uuids, profile, expenses, tz, derived, advice, call, ret>>

\* the values four successive reads of the clock can return when the clock
\* advances by at most one tick while they are made: the first k reads see
\* the old instant
ClockReads4 ==
    { [i \in 1..4 |-> IF i <= k THEN now ELSE now + 1] :
          k \in (IF ticks < MaxTicks THEN 1..4 ELSE {4}) }

\* a variant that reverses the caller's list in place
ComputeDerivedData_reversesExpenses ==
    \E reads \in ClockReads4 :
        /\ derived' = computeDerivedData(profile, expenses,
                                         reads[1], reads[2], reads[3], reads[4])
        /\ expenses' = [i \in 1..Len(expenses) |-> expenses[Len(expenses) + 1 - i]]
        /\ now' = reads[4]
        /\ ticks' = ticks + (reads[4] - now)
        /\ advice' = None
        /\ op' = "computeDerivedData"
        /\ UNCHANGED <<modal, storage, uuids, profile, tz, call, ret>>

\* a caller invokes computeDerivedData(profile, expenses); the advice of the
\* earlier metrics is dropped
ComputeDerivedData ==
    \E reads \in ClockReads4 :
        /\ derived' = computeDerivedData(profile, expenses,
                                         reads[1], reads[2], reads[3], reads[4])
        /\ now' = reads[4]
        /\ ticks' = ticks + (reads[4] - now)
        /\ advice' = None
        /\ op' = "computeDerivedData"
        /\ UNCHANGED <<modal, storage, uuids, profile, expenses, tz, call, ret>>

\* the caller invokes generateAdvice(profile, derived, expenses) with the
\* metrics it has just computed
GenerateAdvice ==
    /\ derived # None
    /\ advice = None
    /\ \E today \in (IF ticks < MaxTicks THEN {now, now + 1} ELSE {now}) :
        /\ advice' = [items |-> generateAdvice(profile, derived, expenses, today)]
        /\ now' = today
        /\ ticks' = ticks + (today - now)
    /\ op' = "generateAdvice"
    /\ UNCHANGED <<modal, storage, uuids, profile, expenses, tz, derived, call, ret>>

Next == Tick \/ ComputeDerivedData \/ GenerateAdvice

Spec == Init /\ [][Next]_vars

-----------------------------------------------------------------------------
(* The engine's functions applied one at a time to arguments of the       *)
(* caller's choice (they are pure but for the clock and the time zone):   *)
(* a behaviour is one application.                                         *)

\* remainingCredits handed to predictExhaustionDate
UnitCredits == {-100, 0, 100, 5500}

\* burn rates handed to predictExhaustionDate
UnitRates == {Fraction(-50, 1), Whole(0), Whole(50), Fraction(500, 3)}

\* instants handed to predictExhaustionDate as `today`: day 20 of the period
\* starting 2026-10-01, at midnight and at noon UTC
UnitInstants == {ParseDate(20727 + 19) + h : h \in 0..(TicksPerDay - 1)}

UnitThresholds ==
    { [warning |-> Fraction(7, 10), danger |-> Fraction(9, 10)],
      [warning |-> Fraction(5, 10), danger |-> Fraction(8, 10)] }

UnitTotalSpent == {0, 1500, 3900, 4500, 5400, 5900, 6600}

UnitMonthlyCredits == {0, 6000}

UnitDaysElapsed == {0, 1, 15, 20, 30}

UnitMonthDays == {0, 30}

UnitDaysUntilExhaustion == {0, 2, 6, 7, 26, Infinity}

UnitRemainingDays == {0, 10, 29}

\* preferences handed to calculateDailySafeLimit: every risk tolerance and
\* combination of boosts, without a cap, with a whole cap and with a decimal
\* cap (parseFloat)
UnitCaps == {NullNumber, Whole(150), Fraction(301, 2)}

UnitPreferences ==
    { [DefaultPreferences EXCEPT !.riskTolerance = r, !.weekendBoost = w,
                                 !.examMode = e, !.maxSpendPerDay = c] :
        r \in {"low", "medium", "high"}, w \in BOOLEAN, e \in BOOLEAN,
        c \in UnitCaps }

\* the derivedBase handed to calculateDailySafeLimit
UnitDerivedBases ==
    { [remainingCredits  |-> rc,
       remainingDays     |-> rd,
       averageDailySpend |-> a,
       targetBurnRate    |-> Whole(200)] :
        rc \in {0, 900, 5500, 6000}, rd \in UnitRemainingDays,
        a \in {Whole(0), Whole(200), Whole(500)} }

\* the instants its `new Date()` reads: Saturday 2026-10-03 at midnight and
\* at noon UTC, Monday 2026-10-05 at midnight UTC
UnitLimitInstants ==
    {ParseDate(20729), ParseDate(20729) + 1, ParseDate(20731)}

\* records handed to calculateBurnRateWindow: dated on the first two days
\* of the period starting 2026-10-01, and on days 18 and 20
UnitWindowRecords ==
    { createExpenseEntry(1, 20727, "veg", 100),
      createExpenseEntry(2, 20728, "veg", 300),
      createExpenseEntry(3, 20727 + 17, "veg", 700),
      createExpenseEntry(4, 20727 + 19, "veg", 1100) }

UnitWindowExpenseLists ==
    {<<>>} \cup { <<a>> : a \in UnitWindowRecords }
           \cup { <<a, b>> : a \in UnitWindowRecords, b \in UnitWindowRecords }

\* the instants its `new Date()` reads: days 2 and 20 of the period, at
\* midnight and at noon UTC
UnitWindowInstants ==
    UnitInstants \cup {ParseDate(20728) + h : h \in 0..(TicksPerDay - 1)}

\* decimal costs of the records handed to computeDerivedData, in tenths:
\* 0.1, 0.2, 0.3 and 1.0 (the form accepts any cost in (0, 2000])
UnitCostTenths == {1, 2, 3, 10}

UnitCostLists ==
    {<<>>} \cup { <<a>> : a \in UnitCostTenths }
           \cup { <<a, b>> : a \in UnitCostTenths, b \in UnitCostTenths }
           \cup { <<a, b, c>> : a \in UnitCostTenths, b \in UnitCostTenths,
                                c \in UnitCostTenths }

\* expenses.reduce((sum, exp) => sum + exp.cost, 0) over records whose costs
\* are the doubles parseFloat returned
totalSpentOf(costs) ==
    SumCostDouble([i \in 1..Len(costs) |-> parseFloatTenths(costs[i])],
                  DoubleZero)

\* expense lists handed to computeDerivedData: a purchase on the start date
\* 2026-10-01 and a record of negative cost (the engine does not reject it;
\* an imported document can hold one) on day 18
UnitEngineRecords ==
    { createExpenseEntry(1, 20727, "veg", 1000),
      createExpenseEntry(2, 20727 + 17, "veg", -300) }

UnitEngineExpenseLists ==
    {<<>>} \cup { <<a>> : a \in UnitEngineRecords }
           \cup { <<a, b>> : a \in UnitEngineRecords, b \in UnitEngineRecords }

UnitInit ==
    /\ profile = None
    /\ expenses = <<>>
    /\ tz \in TimeZones
    /\ now = 0
    /\ ticks = 0
    /\ derived = None
    /\ advice = None
    /\ op = "init"
    /\ call = None
    /\ ret = None
    /\ storage = None
    /\ uuids = 0
    /\ modal = None

CallPredictExhaustionDate ==
    /\ call = None
    /\ \E remainingCredits \in UnitCredits, burnRate \in UnitRates,
       today \in UnitInstants :
        /\ call' = [fn               |-> "predictExhaustionDate",
                    remainingCredits |-> remainingCredits,
                    burnRate         |-> burnRate,
                    today            |-> today]
        /\ ret' = predictExhaustionDate(remainingCredits, burnRate, today,
                                        AddDays(today, 10))
        /\ op' = "predictExhaustionDate"
        /\ UNCHANGED <<modal, storage, uuids, profile, expenses, tz, now, ticks, derived, advice>>

\* burn rates that are doubles: 0, 200, and the least positive double
\* 2^-1074 (5e-324)
UnitDoubleRates ==
    { DoubleZero,
      [m |-> BigMul(BigOfInt(200), BigPow2(45)), e |-> -45],
      [m |-> BigOfInt(1), e |-> -1074] }

CallPredictExhaustionDateOfDouble ==
    /\ call = None
    /\ \E remainingCredits \in {0, 5500, 6000}, burnRate \in UnitDoubleRates,
       today \in UnitInstants :
        /\ call' = [fn               |-> "predictExhaustionDate(double)",
                    remainingCredits |-> remainingCredits,
                    burnRate         |-> burnRate,
                    today            |-> today]
        /\ ret' = predictExhaustionDateOfDouble(remainingCredits, burnRate, today,
                                                AddDays(today, 10))
        /\ op' = "predictExhaustionDate"
        /\ UNCHANGED <<modal, storage, uuids, profile, expenses, tz, now, ticks, derived, advice>>

CallDetermineRiskLevel ==
    /\ call = None
    /\ \E totalSpent \in UnitTotalSpent, monthlyCredits \in UnitMonthlyCredits,
       daysElapsed \in UnitDaysElapsed, monthDays \in UnitMonthDays,
       daysUntilExhaustion \in UnitDaysUntilExhaustion,
       remainingDays \in UnitRemainingDays, thresholds \in UnitThresholds :
        /\ call' = [fn                  |-> "determineRiskLevel",
                    totalSpent          |-> totalSpent,
                    monthlyCredits      |-> monthlyCredits,
                    daysElapsed         |-> daysElapsed,
                    monthDays           |-> monthDays,
                    daysUntilExhaustion |-> daysUntilExhaustion,
                    remainingDays       |-> remainingDays,
                    thresholds          |-> thresholds]
        /\ ret' = [riskLevel |->
                      determineRiskLevel(totalSpent, monthlyCredits, daysElapsed,
                          monthDays, daysUntilExhaustion, remainingDays, thresholds)]
        /\ op' = "determineRiskLevel"
        /\ UNCHANGED <<modal, storage, uuids, profile, expenses, tz, now, ticks, derived, advice>>

\* metrics handed to generateAdvice: any combination of the fields its rules
\* read, for day 5 or day 20 of a 30-day period
UnitMetrics ==
    { [today                   |-> 20727 + daysElapsed - 1,
       daysElapsed             |-> daysElapsed,
       remainingDays           |-> 30 - daysElapsed,
       totalSpent              |-> 6000 - remainingCredits,
       remainingCredits        |-> remainingCredits,
       todaySpend              |-> todaySpend,
       dailySafeLimit          |-> 200,
       averageDailySpend       |-> Fraction(6000 - remainingCredits, daysElapsed),
       burnRate7d              |-> Fraction(6000 - remainingCredits, daysElapsed),
       burnRate3d              |-> Fraction(6000 - remainingCredits, daysElapsed),
       burnRateOverall         |-> Fraction(6000 - remainingCredits, daysElapsed),
       targetBurnRate          |-> Whole(200),
       predictedExhaustionDate |-> IF daysUntilExhaustion = Infinity THEN Null
                                   ELSE 20727 + daysElapsed - 1 + daysUntilExhaustion,
       daysUntilExhaustion     |-> daysUntilExhaustion,
       riskLevel               |-> riskLevel,
       surplusOrDeficit        |-> surplusOrDeficit,
       creditsUsedRatio        |-> Fraction(6000 - remainingCredits, 6000),
       timeElapsedRatio        |-> Fraction(daysElapsed, 30),
       confidenceLevel         |-> "medium",
       endDate                 |-> 20727 + 29] :
        daysElapsed \in {5, 20},
        remainingCredits \in {100, 3000, 5900},
        todaySpend \in {0, 500},
        daysUntilExhaustion \in {2, Infinity},
        riskLevel \in {"safe", "danger"},
        surplusOrDeficit \in {Whole(-9000), Whole(3000)} }

\* expense lists handed to generateAdvice: none, three small ones, and six
\* with five chicken items and a dessert above a tenth of the credits
UnitExpenseLists ==
    { <<>>,
      [i \in 1..3 |-> createExpenseEntry(i, 20727 + i, "veg", 40)],
      [i \in 1..6 |-> IF i = 3
                      THEN createExpenseEntry(i, 20727 + i, "dessert", 700)
                      ELSE createExpenseEntry(i, 20727 + i, "chicken", 100)] }

CallGenerateAdvice ==
    /\ call = None
    /\ \E prefs \in PreferenceChoices, d \in UnitMetrics,
       exps \in UnitExpenseLists, today \in UnitInstants :
        LET prof == [userType       |-> "hostel_student",
                     monthlyCredits |-> 6000,
                     monthDays      |-> 30,
                     startDate      |-> 20727,
                     preferences    |-> prefs]
        IN  /\ call' = [fn       |-> "generateAdvice",
                        profile  |-> prof,
                        derived  |-> d,
                        expenses |-> exps,
                        today    |-> today]
            /\ ret' = [items |-> generateAdvice(prof, d, exps, today)]
            /\ op' = "generateAdvice"
            /\ UNCHANGED <<modal, storage, uuids, profile, expenses, tz, now, ticks, derived, advice>>

CallCalculateDailySafeLimit ==
    /\ call = None
    /\ \E p \in UnitPreferences, b \in UnitDerivedBases, t \in UnitLimitInstants :
           LET prof == [userType       |-> "hostel_student",
                        monthlyCredits |-> 6000,
                        monthDays      |-> 30,
                        startDate      |-> 20727,
                        preferences    |-> p]
           IN  /\ call' = [fn |-> "calculateDailySafeLimit", profile |-> prof,
                           expenses |-> <<>>, derivedBase |-> b, today |-> t]
               /\ ret' = [dailySafeLimit |->
                              calculateDailySafeLimit(prof, <<>>, b, t)]
    /\ op' = "calculateDailySafeLimit"
    /\ UNCHANGED <<modal, storage, uuids, profile, expenses, tz, now, ticks, derived, advice>>

CallCalculateBurnRateWindow ==
    /\ call = None
    /\ \E exps \in UnitWindowExpenseLists, w \in {3, 7}, t \in UnitWindowInstants :
           /\ call' = [fn |-> "calculateBurnRateWindow", expenses |-> exps,
                       windowDays |-> w, startDate |-> 20727, today |-> t]
           /\ ret' = [rate |-> calculateBurnRateWindow(exps, w, ParseDate(20727), t)]
    /\ op' = "calculateBurnRateWindow"
    /\ UNCHANGED <<modal, storage, uuids, profile, expenses, tz, now, ticks, derived, advice>>

\* the totalSpent of computeDerivedData on records with decimal costs
CallTotalSpent ==
    /\ call = None
    /\ \E costs \in UnitCostLists :
           /\ call' = [fn |-> "computeDerivedData.totalSpent", costs |-> costs]
           /\ ret' = [totalSpent |-> totalSpentOf(costs)]
    /\ op' = "computeDerivedData"
    /\ UNCHANGED <<modal, storage, uuids, profile, expenses, tz, now, ticks, derived, advice>>

\* computeDerivedData(profile, expenses) at one instant of the clock
CallComputeDerivedData ==
    /\ call = None
    /\ \E exps \in UnitEngineExpenseLists, t \in UnitInstants :
           LET prof == [userType       |-> "hostel_student",
                        monthlyCredits |-> 6000,
                        monthDays      |-> 30,
                        startDate      |-> 20727,
                        preferences    |-> DefaultPreferences]
           IN  /\ call' = [fn |-> "computeDerivedData", profile |-> prof,
                           expenses |-> exps, today |-> t]
               /\ ret' = computeDerivedData(prof, exps, t, t, t, t)
    /\ op' = "computeDerivedData"
    /\ UNCHANGED <<modal, storage, uuids, profile, expenses, tz, now, ticks, derived, advice>>

\* records handed to a render pass: three amounts dated on the first day of
\* the period and one dated on its 20th day
UnitRenderRecords ==
    { [day |-> 0, cost |-> 1380], [day |-> 0, cost |-> 1000],
      [day |-> 0, cost |-> 2000], [day |-> 19, cost |-> 500] }

\* the lists of three such records
UnitRenderExpenseLists ==
    { [i \in 1..3 |-> createExpenseEntry(i, 20727 + ks[i].day, "veg", ks[i].cost)]
      : ks \in [1..3 -> UnitRenderRecords] }

\* the instants of a render pass: day 5, day 20 (00:00 and 12:00 UTC) and the
\* day after the period of 30 days
UnitRenderInstants ==
    {ParseDate(20727 + 4), ParseDate(20727 + 19), ParseDate(20727 + 19) + 1,
     ParseDate(20727 + 30)}

\* a render pass at one instant of the clock: render() computes the metrics
\* and renderAdvice() hands them to generateAdvice
CallRenderAdvice ==
    /\ call = None
    /\ \E exps \in UnitRenderExpenseLists, t \in UnitRenderInstants :
           LET prof == [userType       |-> "hostel_student",
                        monthlyCredits |-> 6000,
                        monthDays      |-> 30,
                        startDate      |-> 20727,
                        preferences    |-> DefaultPreferences]
               d    == computeDerivedData(prof, exps, t, t, t, t)
           IN  /\ call' = [fn |-> "renderAdvice", profile |-> prof,
                           expenses |-> exps, today |-> t]
               /\ ret' = [derived |-> d,
                          items   |-> generateAdvice(prof, d, exps, t)]
    /\ op' = "renderAdvice"
    /\ UNCHANGED <<modal, storage, uuids, profile, expenses, tz, now, ticks, derived, advice>>

UnitNext ==
    \/ CallPredictExhaustionDate
    \/ CallDetermineRiskLevel
    \/ CallGenerateAdvice
    \/ CallCalculateDailySafeLimit
    \/ CallCalculateBurnRateWindow
    \/ CallTotalSpent
    \/ CallComputeDerivedData
    \/ CallRenderAdvice
    \/ CallPredictExhaustionDateOfDouble

UnitSpec == UnitInit /\ [][UnitNext]_vars

-----------------------------------------------------------------------------
(* STORAGE: the state document { profile, expenses } as JSON.  A JSON       *)
(* value is tagged with its type; JSON has no NaN and no Infinity, which    *)
(* JSON.stringify writes as null.                                            *)

JsonNull == [type |-> "null"]

\* JSON.stringify of a JS number or null
JsonOfNumber(x) ==
    IF x = NullNumber \/ x[2] = 0 THEN JsonNull
    ELSE [type |-> "number", value |-> x]

\* JSON.stringify of a whole number, of a string, of a boolean
JsonOfWhole(n) == [type |-> "number", value |-> n]

JsonOfString(str) == [type |-> "string", value |-> str]

\* JSON.stringify of a date string or of the notes, which may be null
JsonOfText(text) ==
    IF text = Null THEN JsonNull ELSE [type |-> "string", value |-> text]

JsonOfBoolean(b) == [type |-> "boolean", value |-> b]

\* JSON.parse of a number or null, of a whole number, of a string or null
NumberOfJson(j) == IF j.type = "null" THEN NullNumber ELSE j.value

ValueOfJson(j) == IF j.type = "null" THEN Null ELSE j.value

\* JSON.stringify(state) for state = { profile, expenses }; an entry of the
\* list that is null (None) is written as null
JSONstringify(state) ==
    [profile |->
        [userType       |-> JsonOfString(state.profile.userType),
         monthlyCredits |-> JsonOfWhole(state.profile.monthlyCredits),
         monthDays      |-> JsonOfWhole(state.profile.monthDays),
         startDate      |-> JsonOfText(state.profile.startDate),
         preferences    |->
            LET prefs == state.profile.preferences
            IN  [riskTolerance  |-> JsonOfString(prefs.riskTolerance),
                 weekendBoost   |-> JsonOfBoolean(prefs.weekendBoost),
                 examMode       |-> JsonOfBoolean(prefs.examMode),
                 maxSpendPerDay |-> JsonOfNumber(prefs.maxSpendPerDay),
                 vegetarian     |-> JsonOfBoolean(prefs.vegetarian),
                 notificationThresholds |->
                     [warning |-> JsonOfNumber(prefs.notificationThresholds.warning),
                      danger  |-> JsonOfNumber(prefs.notificationThresholds.danger)]]],
     expenses |->
        [i \in 1..Len(state.expenses) |->
            LET exp == state.expenses[i]
            IN  IF exp = None THEN JsonNull ELSE
                [id       |-> JsonOfWhole(exp.id),
                 date     |-> JsonOfText(exp.date),
                 mealType |-> JsonOfString(exp.mealType),
                 itemType |-> JsonOfString(exp.itemType),
                 quantity |-> JsonOfWhole(exp.quantity),
                 cost     |-> JsonOfWhole(exp.cost),
                 notes    |-> JsonOfText(exp.notes)]]]

\* JSON.parse(text) of a state document; a null in the list is an entry that
\* is null (None)
JSONparse(doc) ==
    [profile |->
        [userType       |-> ValueOfJson(doc.profile.userType),
         monthlyCredits |-> ValueOfJson(doc.profile.monthlyCredits),
         monthDays      |-> ValueOfJson(doc.profile.monthDays),
         startDate      |-> ValueOfJson(doc.profile.startDate),
         preferences    |->
            LET prefs == doc.profile.preferences
            IN  [riskTolerance  |-> ValueOfJson(prefs.riskTolerance),
                 weekendBoost   |-> ValueOfJson(prefs.weekendBoost),
                 examMode       |-> ValueOfJson(prefs.examMode),
                 maxSpendPerDay |-> NumberOfJson(prefs.maxSpendPerDay),
                 vegetarian     |-> ValueOfJson(prefs.vegetarian),
                 notificationThresholds |->
                     [warning |-> NumberOfJson(prefs.notificationThresholds.warning),
                      danger  |-> NumberOfJson(prefs.notificationThresholds.danger)]]],
     expenses |->
        [i \in 1..Len(doc.expenses) |->
            LET exp == doc.expenses[i]
            IN  IF exp = JsonNull THEN None ELSE
                [id       |-> ValueOfJson(exp.id),
                 date     |-> ValueOfJson(exp.date),
                 mealType |-> ValueOfJson(exp.mealType),
                 itemType |-> ValueOfJson(exp.itemType),
                 quantity |-> ValueOfJson(exp.quantity),
                 cost     |-> ValueOfJson(exp.cost),
                 notes    |-> ValueOfJson(exp.notes)]]]

\* a text that is not JSON: JSON.parse throws a SyntaxError on it
UnparseableText == [text |-> "not json"]

\* saveState(state): the document localStorage holds afterwards
saveState(state) == JSONstringify(state)

\* loadState(): the saved state, or None when nothing is saved or when
\* JSON.parse throws, which the catch block answers with a toast
loadState ==
    IF storage = None \/ storage = UnparseableText THEN None
    ELSE JSONparse(storage)

-----------------------------------------------------------------------------
(* MAIN APPLICATION CLASS: UnmessifyApp and its handlers.  The fields       *)
(* this.profile, this.expenses and this.derived are the variables profile,  *)
(* expenses and derived; a handler runs within one tick of the clock.       *)

\* parseInt and parseFloat of a form field that holds digits or is empty
\* (Null): the empty text parses to NaN
parseInt(text) == IF text = Null THEN <<0, 0>> ELSE Whole(text)

parseFloat(text) == IF text = Null THEN <<0, 0>> ELSE Whole(text)

\* x / 100
DivideBy100(x) == IF x[2] = 0 THEN x ELSE Fraction(x[1], 100 * x[2])

\* the setup forms a user submits: credits inside and outside 3000..10000
AppStartDates == {20727, 20729}

SetupForms ==
    [userType : {"hostel_student"}, monthlyCredits : {6000, 2500},
     monthDays : {30}, startDate : AppStartDates, vegetarian : {FALSE}]

\* the expense forms a user submits: two past dates and a future one, a cost
\* inside and one outside 0 < cost <= 2000
ExpenseForms ==
    [date : {20727, 20728, 20731}, itemType : {"veg"}, cost : {250, 0}]

\* the preference forms a user submits: the warning field filled or empty
PreferenceForms ==
    [riskTolerance : {"medium"}, weekendBoost : {FALSE}, examMode : {FALSE},
     maxSpendPerDay : {Null}, warningThreshold : {70, Null},
     dangerThreshold : {90}]

\* the ids generateUUID can hand out in a behaviour
Uuids == {1, 2}

\* the instant at which the app is opened: 2026-10-03 00:00 UTC
AppInstants == {ParseDate(20729)}

\* validateSetupForm(formData): TRUE when it reports no error
validateSetupForm(form) ==
    /\ form.monthlyCredits >= 3000 /\ form.monthlyCredits <= 10000
    /\ form.monthDays >= 28 /\ form.monthDays <= 31
    /\ form.startDate # Null

\* validateExpenseForm(formData): TRUE when it reports no error
validateExpenseForm(form) ==
    LET expDate   == ParseDate(form.date)
        \* the first instant after today.setHours(23, 59, 59, 999)
        tomorrow  == (formatDate(now) + 1) * TicksPerDay - tz
        startDate == ParseDate(profile.startDate)
        endDate   == ParseDate(profile.startDate + profile.monthDays - 1)
    IN  /\ form.date # Null
        /\ ~(expDate >= tomorrow)
        /\ ~(expDate < startDate \/ expDate > endDate)
        /\ ~(form.cost <= 0 \/ form.cost > 2000)

\* Array.prototype.sort with (a, b) => new Date(b.date) - new Date(a.date):
\* a stable sort, latest date first
InsertByDate(sorted, item) ==
    LET k == Cardinality({ i \in 1..Len(sorted) : sorted[i].date >= item.date })
    IN  SubSeq(sorted, 1, k) \o <<item>> \o SubSeq(sorted, k + 1, Len(sorted))

\* a variant that leaves the pushed record where push put it
SortByDate_pushOnly(exps) == exps

RECURSIVE SortByDate(_)
SortByDate(exps) ==
    IF exps = <<>> THEN <<>>
    ELSE InsertByDate(SortByDate(SubSeq(exps, 1, Len(exps) - 1)), exps[Len(exps)])

\* reading exp.cost, exp.date or exp.id of an entry that is null throws a
\* TypeError: computeDerivedData's reduce, the sort comparator and the filter
\* of deleteExpense throw on a list with such an entry
ThrowsTypeError(exps) == \E i \in DOMAIN exps : exps[i] = None

\* render(): the value of this.derived afterwards; when computeDerivedData
\* throws, this.derived keeps its value
render(prof, exps) ==
    IF prof = None \/ ThrowsTypeError(exps) THEN derived
    ELSE computeDerivedData(prof, exps, now, now, now, now)

\* save() then render() with the new profile and expense list
SaveAndRender(prof, exps) ==
    /\ profile' = prof
    /\ expenses' = exps
    /\ storage' = saveState([profile |-> prof, expenses |-> exps])
    /\ derived' = render(prof, exps)

\* new UnmessifyApp() in a browser whose localStorage is empty
AppInit ==
    /\ profile = None
    /\ expenses = <<>>
    /\ derived = None
    /\ storage = None
    /\ uuids = 0
    /\ modal = None
    /\ tz \in TimeZones
    /\ now \in AppInstants
    /\ ticks = 0
    /\ advice = None
    /\ op = "init"
    /\ call = None
    /\ ret = None

\* the page is reloaded: constructor and init()
Reload ==
    /\ LET state == loadState
       IN  /\ profile' = IF state = None THEN None ELSE state.profile
           /\ expenses' = IF state = None THEN <<>> ELSE state.expenses
           /\ derived' = IF state = None \/ ThrowsTypeError(state.expenses)
                         THEN None
                         ELSE computeDerivedData(state.profile, state.expenses,
                                                 now, now, now, now)
    /\ modal' = None
    /\ op' = "init"
    /\ UNCHANGED <<storage, uuids, tz, now, ticks, advice, call, ret>>

\* handleSetupSubmit(form)
HandleSetupSubmit ==
    \E form \in SetupForms :
        /\ IF validateSetupForm(form)
           THEN LET preferences ==
                        IF profile # None THEN profile.preferences
                        ELSE DefaultPreferences
                IN  SaveAndRender(
                        [userType       |-> form.userType,
                         monthlyCredits |-> form.monthlyCredits,
                         monthDays      |-> form.monthDays,
                         startDate      |-> form.startDate,
                         preferences    |->
                             [preferences EXCEPT !.vegetarian = form.vegetarian]],
                        expenses)
           ELSE UNCHANGED <<profile, expenses, storage, derived>>
        /\ op' = "handleSetupSubmit"
        /\ UNCHANGED <<uuids, modal, tz, now, ticks, advice, call, ret>>

\* handleExpenseSubmit(form)
HandleExpenseSubmit ==
    \E form \in ExpenseForms :
        /\ IF profile # None /\ validateExpenseForm(form)
           THEN /\ uuids < Cardinality(Uuids)
                /\ uuids' = uuids + 1
                /\ LET pushed == Append(expenses,
                                     createExpenseEntry(uuids + 1, form.date,
                                                        form.itemType, form.cost))
                   IN  IF ThrowsTypeError(pushed)
                       THEN /\ expenses' = pushed
                            /\ UNCHANGED <<profile, storage, derived>>
                       ELSE SaveAndRender(profile, SortByDate(pushed))
           ELSE UNCHANGED <<profile, expenses, storage, derived, uuids>>
        /\ op' = "handleExpenseSubmit"
        /\ UNCHANGED <<modal, tz, now, ticks, advice, call, ret>>

\* handlePreferencesSubmit(form)
HandlePreferencesSubmit ==
    \E form \in PreferenceForms :
        /\ IF profile # None
           THEN SaveAndRender(
                    [profile EXCEPT !.preferences =
                        [@ EXCEPT
                           !.riskTolerance = form.riskTolerance,
                           !.weekendBoost = form.weekendBoost,
                           !.examMode = form.examMode,
                           !.maxSpendPerDay =
                               IF form.maxSpendPerDay # Null
                               THEN parseFloat(form.maxSpendPerDay)
                               ELSE NullNumber,
                           !.notificationThresholds =
                               [warning |-> DivideBy100(parseInt(form.warningThreshold)),
                                danger  |-> DivideBy100(parseInt(form.dangerThreshold))]]],
                    expenses)
           ELSE UNCHANGED <<profile, expenses, storage, derived>>
        /\ op' = "handlePreferencesSubmit"
        /\ UNCHANGED <<uuids, modal, tz, now, ticks, advice, call, ret>>

\* a variant that deletes at once, without the confirm dialog
DeleteExpense_withoutConfirm ==
    \E i \in 1..Len(expenses) :
        /\ SaveAndRender(profile,
               SelectSeq(expenses, LAMBDA exp : exp.id # expenses[i].id))
        /\ op' = "deleteExpense"
        /\ UNCHANGED <<uuids, modal, tz, now, ticks, advice, call, ret>>

\* deleteExpense(id), from the delete button of a record in the history:
\* showConfirmModal sets what the OK button does
DeleteExpense ==
    \E i \in 1..Len(expenses) :
        /\ expenses[i] # None
        /\ modal' = [action |-> "deleteExpense", id |-> expenses[i].id]
        /\ op' = "deleteExpense"
        /\ UNCHANGED <<profile, expenses, storage, derived, uuids, tz, now, ticks,
                       advice, call, ret>>

\* the export button: exportState writes a backup file and leaves the app as
\* it is
ExportData ==
    /\ profile # None
    /\ op' = "exportState"
    /\ UNCHANGED <<profile, expenses, storage, derived, uuids, modal, tz, now,
                   ticks, advice, call, ret>>

\* the import input, given the backup file the export button writes for the
\* state the app holds
ImportData ==
    /\ profile # None
    /\ LET state == JSONparse(JSONstringify([profile |-> profile,
                                             expenses |-> expenses]))
       IN  SaveAndRender(state.profile, state.expenses)
    /\ op' = "importState"
    /\ UNCHANGED <<uuids, modal, tz, now, ticks, advice, call, ret>>

\* the clear button: showConfirmModal sets what the OK button does
ClearData ==
    /\ modal' = [action |-> "clearData"]
    /\ op' = "clearData"
    /\ UNCHANGED <<profile, expenses, storage, derived, uuids, tz, now, ticks,
                   advice, call, ret>>

\* the OK button of the confirm dialog: cleanup(), then onConfirm()
ConfirmOk ==
    /\ modal # None
    /\ modal' = None
    /\ IF modal.action = "deleteExpense"
       THEN IF ThrowsTypeError(expenses)
            THEN UNCHANGED <<profile, expenses, storage, derived>>
            ELSE SaveAndRender(profile,
                     SelectSeq(expenses, LAMBDA exp : exp.id # modal.id))
       ELSE /\ profile' = None
            /\ expenses' = <<>>
            /\ storage' = None
            /\ derived' = render(None, <<>>)
    /\ op' = "confirmOk"
    /\ UNCHANGED <<uuids, tz, now, ticks, advice, call, ret>>

\* the Cancel button of the confirm dialog: cleanup()
ConfirmCancel ==
    /\ modal # None
    /\ modal' = None
    /\ op' = "confirmCancel"
    /\ UNCHANGED <<profile, expenses, storage, derived, uuids, tz, now, ticks,
                   advice, call, ret>>

AppNext ==
    \/ Tick
    \/ Reload
    \/ HandleSetupSubmit
    \/ HandleExpenseSubmit
    \/ HandlePreferencesSubmit
    \/ DeleteExpense
    \/ ExportData
    \/ ImportData
    \/ ClearData
    \/ ConfirmOk
    \/ ConfirmCancel

AppSpec == AppInit /\ [][AppNext]_vars

-----------------------------------------------------------------------------
(* The import input given any file, and a stored text that is not JSON,     *)
(* with the operations that load, add and delete.                           *)

\* a backup another installation wrote: a profile and two records, the
\* older one first
BackupState ==
    [profile  |-> [userType       |-> "hostel_student",
                   monthlyCredits |-> 6000,
                   monthDays      |-> 30,
                   startDate      |-> 20727,
                   preferences    |-> DefaultPreferences],
     expenses |-> <<createExpenseEntry(11, 20727, "veg", 250),
                    createExpenseEntry(12, 20728, "veg", 250)>>]

BackupDocument == JSONstringify(BackupState)

\* the files a user hands to the import input: a text that is not JSON,
\* { "profile": {...} } without expenses, { "expenses": [...] } without a
\* profile, a document whose expenses are [null], and a backup
ImportFiles ==
    { UnparseableText,
      [profile |-> BackupDocument.profile],
      [expenses |-> BackupDocument.expenses],
      [profile |-> BackupDocument.profile, expenses |-> <<JsonNull>>],
      BackupDocument }

\* importState(file, callback) with the callback of the import input:
\* JSON.parse, then callback(state) when state.profile && state.expenses;
\* a TypeError that render() throws is caught by importState's catch block,
\* after the callback has assigned and saved
ImportFile ==
    \E file \in ImportFiles :
        /\ IF /\ file # UnparseableText
              /\ "profile" \in DOMAIN file
              /\ "expenses" \in DOMAIN file
              /\ file.profile # JsonNull
           THEN LET state == JSONparse(file)
                IN  SaveAndRender(state.profile, state.expenses)
           ELSE UNCHANGED <<profile, expenses, storage, derived>>
        /\ op' = "importState(file)"
        /\ UNCHANGED <<uuids, modal, tz, now, ticks, advice, call, ret>>

\* the text under STORAGE_KEY is damaged outside the app
CorruptStorage ==
    /\ storage # None
    /\ storage # UnparseableText
    /\ storage' = UnparseableText
    /\ op' = "corruptStorage"
    /\ UNCHANGED <<profile, expenses, derived, uuids, modal, tz, now, ticks,
                   advice, call, ret>>

\* the operations that load, import, add and delete
FilesNext ==
    \/ Reload
    \/ HandleSetupSubmit
    \/ HandleExpenseSubmit
    \/ DeleteExpense
    \/ ConfirmOk
    \/ ConfirmCancel
    \/ ImportFile
    \/ CorruptStorage

FilesSpec == AppInit /\ [][FilesNext]_vars

-----------------------------------------------------------------------------
(* Properties *)

IsCall(fn) == call # None /\ call.fn = fn

\* C1: for every profile and every expense list, also one whose total cost
\* exceeds monthlyCredits, the metrics computeDerivedData returns have
\* remainingCredits >= 0 and dailySafeLimit >= 0.
C1_NonNegativeMetrics ==
    derived # None =>
        derived.remainingCredits >= 0 /\ derived.dailySafeLimit >= 0

\* metrics of an expense list that costs more than the monthly credits
C1_Witness ==
    /\ derived # None
    /\ profile.monthlyCredits > 0
    /\ derived.totalSpent > profile.monthlyCredits
    /\ derived.remainingCredits = 0

IsSentinel(r) ==
    r.daysUntilExhaustion = Infinity /\ r.predictedExhaustionDate = Null

\* C2 as claimed: predictExhaustionDate returns the infinite sentinel
\* (Infinity, null date) if and only if burnRate <= 0, whatever
\* remainingCredits is.
C2_SentinelIffRateNotPositive ==
    IsCall("predictExhaustionDate") =>
        (IsSentinel(ret) <=> RLe(call.burnRate, Whole(0)))

\* C2: predictExhaustionDate returns the infinite sentinel (Infinity, null
\* date) if and only if burnRate <= 0 and remainingCredits > 0; with
\* remainingCredits <= 0 it returns 0 days and today's date whatever the rate.
C2_SentinelIffRateNotPositiveAndCreditsLeft ==
    IsCall("predictExhaustionDate") =>
        /\ IsSentinel(ret) <=>
               (RLe(call.burnRate, Whole(0)) /\ call.remainingCredits > 0)
        /\ call.remainingCredits <= 0 =>
               /\ ret.daysUntilExhaustion = 0
               /\ ret.predictedExhaustionDate = formatDate(call.today)

\* no credits left and no positive burn rate: exhausted now, not never
C2_Witness ==
    /\ IsCall("predictExhaustionDate")
    /\ call.remainingCredits <= 0
    /\ RLe(call.burnRate, Whole(0))
    /\ ret.daysUntilExhaustion = 0

\* the rank of a severity: high = 0, medium = 1, low = 2
SeverityRank(severity) ==
    IF severity = "high" THEN 0 ELSE IF severity = "medium" THEN 1 ELSE 2

\* C3: for every (profile, metrics, records), generateAdvice returns at most
\* 5 items, in non-decreasing severity rank.
C3_AtMostFiveSorted ==
    IsCall("generateAdvice") =>
        /\ Len(ret.items) <= 5
        /\ \A i, j \in 1..Len(ret.items) :
               i < j => SeverityRank(ret.items[i].severity)
                            <= SeverityRank(ret.items[j].severity)

\* more than five rules fire, and the five kept are of several severities
C3_Witness ==
    /\ IsCall("generateAdvice")
    /\ Len(triggeredRules(call.profile, call.derived, call.expenses, call.today)) > 5
    /\ Len(ret.items) = 5
    /\ ret.items[1].severity # ret.items[5].severity

\* the place of a rule in the adviceRules table
RuleIndex(id) == CHOOSE i \in 1..Len(adviceRules) : adviceRules[i].id = id

\* C4: in the output of generateAdvice, two items of equal severity are in
\* the order of their rules in the adviceRules table.
C4_StableAmongEqualSeverity ==
    IsCall("generateAdvice") =>
        \A i, j \in 1..Len(ret.items) :
            (i < j /\ ret.items[i].severity = ret.items[j].severity)
                => RuleIndex(ret.items[i].id) < RuleIndex(ret.items[j].id)

\* items of equal severity in an output that the sort has reordered
C4_Witness ==
    /\ IsCall("generateAdvice")
    /\ \E i, j \in 1..Len(ret.items) :
           i < j /\ ret.items[i].severity = ret.items[j].severity
    /\ \E k, l \in 1..Len(ret.items) :
           k < l /\ RuleIndex(ret.items[k].id) > RuleIndex(ret.items[l].id)

\* Scenario A: 6000 credits, 30 days, default preferences, no records, and
\* today (the local date of the call) is the start date
ScenarioA ==
    /\ derived # None
    /\ profile.monthlyCredits = 6000
    /\ profile.monthDays = 30
    /\ profile.preferences = DefaultPreferences
    /\ expenses = <<>>
    /\ derived.today = profile.startDate

\* C5 as claimed: in Scenario A computeDerivedData yields daysElapsed = 1,
\* totalSpent = 0, remainingCredits = 6000, dailySafeLimit = 200,
\* riskLevel = safe, confidenceLevel = low.
C5_ScenarioA_Limit200 ==
    ScenarioA =>
        /\ derived.daysElapsed = 1
        /\ derived.totalSpent = 0
        /\ derived.remainingCredits = 6000
        /\ derived.dailySafeLimit = 200
        /\ derived.riskLevel = "safe"
        /\ derived.confidenceLevel = "low"

\* C5: in Scenario A computeDerivedData yields totalSpent = 0,
\* remainingCredits = 6000, riskLevel = safe, confidenceLevel = low,
\* remainingDays = 30 - daysElapsed and dailySafeLimit =
\* round(6000 / remainingDays): daysElapsed = 1 and dailySafeLimit = 207 when
\* local time is UTC; daysElapsed can only be 0 (limit 200) in a zone ahead
\* of UTC and can only be 2 (limit 214) in a zone behind UTC.
C5_ScenarioA_LimitByRemainingDays ==
    ScenarioA =>
        /\ derived.totalSpent = 0
        /\ derived.remainingCredits = 6000
        /\ derived.riskLevel = "safe"
        /\ derived.confidenceLevel = "low"
        /\ derived.remainingDays = 30 - derived.daysElapsed
        /\ \/ derived.daysElapsed = 1 /\ derived.dailySafeLimit = 207
           \/ derived.daysElapsed = 0 /\ derived.dailySafeLimit = 200 /\ tz > 0
           \/ derived.daysElapsed = 2 /\ derived.dailySafeLimit = 214 /\ tz < 0

\* Scenario A in UTC: day 1, 29 days remain, the limit is round(6000 / 29)
C5_Witness ==
    /\ ScenarioA
    /\ tz = 0
    /\ derived.daysElapsed = 1
    /\ derived.remainingDays = 29
    /\ derived.dailySafeLimit = 207

ExhaustionRuleApplies(c) ==
    /\ c.daysUntilExhaustion # Infinity
    /\ c.daysUntilExhaustion < c.remainingDays - 3

\* C6: whenever daysUntilExhaustion is finite and below remainingDays - 3,
\* determineRiskLevel returns danger, whatever its other arguments; in
\* Scenario C (100 credits left, burn rate 50) predictExhaustionDate returns
\* 2 days and the date two days after today.
C6_EarlyExhaustionIsDanger ==
    /\ (IsCall("determineRiskLevel") /\ ExhaustionRuleApplies(call))
           => ret.riskLevel = "danger"
    /\ (IsCall("predictExhaustionDate")
            /\ call.remainingCredits = 100 /\ call.burnRate = Whole(50))
           => /\ ret.daysUntilExhaustion = 2
              /\ ret.predictedExhaustionDate = formatDate(call.today) + 2

\* Scenario C's risk: day 20 of 30, 10 days remain, exhaustion in 2 days,
\* nothing spent so that no ratio rule speaks of danger
C6_Witness ==
    /\ IsCall("determineRiskLevel")
    /\ call.totalSpent = 0
    /\ call.monthlyCredits = 6000
    /\ call.daysElapsed = 20
    /\ call.monthDays = 30
    /\ call.daysUntilExhaustion = 2
    /\ call.remainingDays = 10
    /\ ret.riskLevel = "danger"

\* the ordered list of section 4.5 without its first rule, in whole numbers:
\* the ratio is totalSpent / monthlyCredits (0 when monthlyCredits is 0), the
\* time ratio is daysElapsed / monthDays (0 when monthDays is 0)
RatioRules(c) ==
    LET rn == IF c.monthlyCredits > 0 THEN c.totalSpent ELSE 0
        rd == IF c.monthlyCredits > 0 THEN c.monthlyCredits ELSE 1
        tn == IF c.monthDays > 0 THEN c.daysElapsed ELSE 0
        td == IF c.monthDays > 0 THEN c.monthDays ELSE 1
        AtLeast(th) == rn * th[2] >= th[1] * rd
        Ahead(percent) == rn * td * 100 > tn * rd * 100 + percent * rd * td
    IN  CASE AtLeast(c.thresholds.danger)  -> "danger"
          [] ~AtLeast(c.thresholds.danger) /\ AtLeast(c.thresholds.warning) -> "watch"
          [] ~AtLeast(c.thresholds.danger) /\ ~AtLeast(c.thresholds.warning)
                /\ Ahead(15) -> "danger"
          [] ~AtLeast(c.thresholds.danger) /\ ~AtLeast(c.thresholds.warning)
                /\ ~Ahead(15) /\ Ahead(5) -> "watch"
          [] OTHER -> "safe"

\* C7: when the exhaustion rule does not apply, determineRiskLevel is the
\* first match of: ratio >= danger threshold -> danger; ratio >= warning
\* threshold -> watch; ratio > time ratio + 0.15 -> danger; ratio > time
\* ratio + 0.05 -> watch; otherwise safe; so it does not depend on
\* daysUntilExhaustion there.
C7_RatioRulesInOrder ==
    (IsCall("determineRiskLevel") /\ ~ExhaustionRuleApplies(call))
        => ret.riskLevel = RatioRules(call)

\* three quarters spent at half time: the warning threshold is matched
\* before the pace rule that would say danger
C7_Witness ==
    /\ IsCall("determineRiskLevel")
    /\ ~ExhaustionRuleApplies(call)
    /\ call.daysUntilExhaustion # Infinity
    /\ call.totalSpent = 4500
    /\ call.monthlyCredits = 6000
    /\ call.daysElapsed = 15
    /\ call.monthDays = 30
    /\ call.thresholds = DefaultPreferences.notificationThresholds
    /\ ret.riskLevel = "watch"

\* C8: as the README states the risk levels, with the default thresholds:
\* riskLevel is danger whenever the used ratio is more than 0.15 above the
\* time ratio or exhaustion is predicted before the month ends, and it is
\* safe whenever the used ratio is at most the time ratio + 0.05.
C8_ReadmeRiskLevels ==
    (derived # None
        /\ profile.preferences.notificationThresholds
               = DefaultPreferences.notificationThresholds)
    => /\ ( \/ RLt(RAdd(derived.timeElapsedRatio, Fraction(15, 100)),
                   derived.creditsUsedRatio)
            \/ /\ derived.daysUntilExhaustion # Infinity
               /\ derived.daysUntilExhaustion < derived.remainingDays )
          => derived.riskLevel = "danger"
       /\ RLe(derived.creditsUsedRatio,
              RAdd(derived.timeElapsedRatio, Fraction(5, 100)))
          => derived.riskLevel = "safe"

\* C9: two calls of computeDerivedData with the same profile and records on
\* the same calendar date, at whatever times of day, return the same metrics.
C9_SameDateSameMetrics ==
    [][(derived # None /\ op' = "computeDerivedData"
            /\ derived'.today = derived.today)
        => derived' = derived]_vars

CapIsSet ==
    /\ IsCall("calculateDailySafeLimit")
    /\ call.profile.preferences.maxSpendPerDay # NullNumber
    /\ RLt(Whole(0), call.profile.preferences.maxSpendPerDay)

IsWeekendDay(instant) ==
    LET day == (instant + tz) \div TicksPerDay
    IN  (day + 4) % 7 \in {0, 6}

\* n / d rounded to the nearest whole number, halves up (n >= 0, d > 0)
RoundDiv(n, d) == (2 * n + d) \div (2 * d)

\* Scenario D: high tolerance, weekend boost and exam mode enabled, no cap,
\* days remain and the spending is not above the target (no dampening)
ScenarioD ==
    /\ IsCall("calculateDailySafeLimit")
    /\ call.profile.preferences.riskTolerance = "high"
    /\ call.profile.preferences.weekendBoost
    /\ call.profile.preferences.examMode
    /\ call.profile.preferences.maxSpendPerDay = NullNumber
    /\ call.derivedBase.remainingDays > 0
    /\ ~RLt(call.derivedBase.targetBurnRate, call.derivedBase.averageDailySpend)

DatedWithin(exps, lo, hi) ==
    SelectSeq(exps, LAMBDA exp : lo <= exp.date /\ exp.date <= hi)

\* C13: calculateBurnRateWindow(records, w, periodStart) returns the sum of
\* cost over exactly the records dated in the closed interval of calendar
\* dates [max(today - w + 1, periodStart), today], whatever the time of day
\* of the call, divided by max(1, number of days of that interval).
C13_ClosedWindowOfDates ==
    IsCall("calculateBurnRateWindow") =>
        LET todayDate == formatDate(call.today)
            lo == Max(todayDate - call.windowDays + 1, call.startDate)
        IN  ret.rate =
                Fraction(SumCost(DatedWithin(call.expenses, lo, todayDate)),
                         Max(1, todayDate - lo + 1))

\* a JS number that is neither NaN nor an infinity
IsFiniteNumber(x) == x[2] # 0

\* C14: computeDerivedData is total: for every input, also with no records,
\* today before the start date, no remaining days, monthlyCredits = 0 and
\* monthDays = 0, every numeric field of the metrics it returns is a finite
\* number, except daysUntilExhaustion which may be the never sentinel.
C14_EveryMetricFinite ==
    derived # None =>
        /\ IsFiniteNumber(derived.averageDailySpend)
        /\ IsFiniteNumber(derived.burnRateOverall)
        /\ IsFiniteNumber(derived.burnRate7d)
        /\ IsFiniteNumber(derived.burnRate3d)
        /\ IsFiniteNumber(derived.targetBurnRate)
        /\ IsFiniteNumber(derived.surplusOrDeficit)
        /\ IsFiniteNumber(derived.creditsUsedRatio)
        /\ IsFiniteNumber(derived.timeElapsedRatio)
        /\ derived.daysElapsed \in Nat
        /\ derived.remainingDays \in Nat
        /\ derived.totalSpent \in Nat
        /\ derived.remainingCredits \in Nat
        /\ derived.todaySpend \in Nat
        /\ derived.dailySafeLimit \in Nat
        /\ derived.daysUntilExhaustion \in Nat

\* C15: the engine is order-independent: for any permutation of the same
\* expense records computeDerivedData returns identical metrics (here its
\* totalSpent, whose value the other metrics are computed from).
C15_OrderIndependent ==
    IsCall("computeDerivedData.totalSpent") =>
        \A f \in Permutations(1..Len(call.costs)) :
            totalSpentOf([i \in 1..Len(call.costs) |-> call.costs[f[i]]])
                = ret.totalSpent

\* C17: the exhaustion forecast of computeDerivedData uses the 7-day burn
\* rate whenever it is non-zero and the whole-period rate only when the
\* 7-day rate is exactly zero; so, with non-negative costs and daysElapsed
\* >= 1, daysUntilExhaustion is the never sentinel only if both rates are
\* zero.
C17_SevenDayRateUnlessZero ==
    IsCall("computeDerivedData") =>
        LET rate == IF ret.burnRate7d # Whole(0) THEN ret.burnRate7d
                    ELSE ret.burnRateOverall
        IN  /\ ret.daysUntilExhaustion =
                   IF ret.remainingCredits <= 0 THEN 0
                   ELSE IF RLe(rate, Whole(0)) THEN Infinity
                   ELSE MathCeil(RDiv(Whole(ret.remainingCredits), rate))
            /\ ( /\ \A i \in 1..Len(call.expenses) : call.expenses[i].cost >= 0
                 /\ ret.daysElapsed >= 1
                 /\ ret.daysUntilExhaustion = Infinity )
               => (ret.burnRate7d = Whole(0) /\ ret.burnRateOverall = Whole(0))

\* Scenario B: 6000 credits, 30 days, default preferences, one record of
\* cost 500 dated on the start date, and today (the local date of the call)
\* is the start date
ScenarioB ==
    /\ derived # None
    /\ profile.monthlyCredits = 6000
    /\ profile.monthDays = 30
    /\ profile.preferences = DefaultPreferences
    /\ Len(expenses) = 1
    /\ expenses[1].cost = 500
    /\ expenses[1].date = profile.startDate
    /\ derived.today = profile.startDate

HasItem(items, id, severity) ==
    \E i \in 1..Len(items) : items[i].id = id /\ items[i].severity = severity

\* C18: in Scenario B totalSpent = 500 and todaySpend = 500, the
\* dailySafeLimit is strictly below the undampened 5500/29, and
\* generateAdvice returns the daily_limit_exceeded item with severity high.
C18_ScenarioB_DailyLimitExceeded ==
    ScenarioB =>
        /\ derived.totalSpent = 500
        /\ derived.todaySpend = 500
        /\ 29 * derived.dailySafeLimit < 5500
        /\ advice # None => HasItem(advice.items, "daily_limit_exceeded", "high")

\* Scenario B in UTC: the limit is dampened to 120 and the advice is out
C18_Witness ==
    /\ ScenarioB
    /\ tz = 0
    /\ derived.daysElapsed = 1
    /\ derived.dailySafeLimit = 120
    /\ advice # None
    /\ HasItem(advice.items, "daily_limit_exceeded", "high")


\* C16: every (profile, expenses) pair the app holds survives serialisation:
\* restoring what saveState wrote (a reload) or what exportState wrote (an
\* import of that backup) yields a pair equal to the one serialised.
C16_RoundTripRestoresEqualPair ==
    [][ ((op' = "init" /\ storage # None) \/ op' = "importState")
            => (profile' = profile /\ expenses' = expenses) ]_vars

\* C19: in the app every stored expense is dated within the period of the
\* current profile, from startDate to startDate + monthDays - 1.
C19_StoredDatesWithinPeriod ==
    profile # None =>
        \A i \in 1..Len(expenses) :
            /\ expenses[i].date >= profile.startDate
            /\ expenses[i].date <= profile.startDate + profile.monthDays - 1

\* C20 as claimed: the stored list is in the order of submission (ids are
\* handed out in that order), each new record at the end.
C20_StoredListInInsertionOrder ==
    \A i, j \in 1..Len(expenses) : i < j => expenses[i].id < expenses[j].id

\* C20 as amended: the stored list is ordered by date, latest first; records
\* of the same date are in the order of submission.
C20_StoredListLatestDateFirst ==
    \A i, j \in 1..Len(expenses) :
        i < j => \/ expenses[i].date > expenses[j].date
                 \/ /\ expenses[i].date = expenses[j].date
                    /\ expenses[i].id < expenses[j].id

\* a submission has just put the new record before an older-dated one
C20_Witness ==
    /\ op = "handleExpenseSubmit"
    /\ Len(expenses) = 2
    /\ expenses[1].id = uuids
    /\ expenses[1].date > expenses[2].date

\* the high-severity rules of the adviceRules table
HighRules == { r \in { adviceRules[i] : i \in 1..Len(adviceRules) } : r.severity = "high" }

\* C23: truncation to 5 never drops a high-severity item: every rule of
\* severity high whose predicate holds has its item in generateAdvice's output.
C23_HighItemsSurviveTruncation ==
    IsCall("generateAdvice") =>
        \A r \in HighRules :
            When(r.id, call.profile, call.derived, call.expenses, call.today)
                => HasItem(ret.items, r.id, "high")

\* more than five rules fire, all four high ones among them, and the output
\* is truncated
C23_Witness ==
    /\ IsCall("generateAdvice")
    /\ Len(triggeredRules(call.profile, call.derived, call.expenses, call.today)) > 5
    /\ \A r \in HighRules :
           When(r.id, call.profile, call.derived, call.expenses, call.today)
    /\ Len(ret.items) = 5

\* an item of the given rule is in the output
HasRule(items, id) == \E i \in 1..Len(items) : items[i].id = id

\* C24 as claimed: for metrics produced by computeDerivedData, the on_track
\* item never appears in the same output as a high-severity item.
C24_OnTrackNeverWithHigh ==
    IsCall("renderAdvice") =>
        ~(HasRule(ret.items, "on_track")
          /\ \E i \in 1..Len(ret.items) : ret.items[i].severity = "high")

\* C24 as amended: the on_track item never appears together with the
\* overspending_early item or the queue_risk item.
C24_OnTrackNeverWithOverspendingOrQueueRisk ==
    IsCall("renderAdvice") =>
        ~(HasRule(ret.items, "on_track")
          /\ (HasRule(ret.items, "overspending_early")
              \/ HasRule(ret.items, "queue_risk")))

\* on_track is in the output, next to the exhaustion warning
C24_Witness ==
    /\ IsCall("renderAdvice")
    /\ HasRule(ret.items, "on_track")
    /\ HasRule(ret.items, "exhaustion_warning")
    /\ ret.derived.riskLevel = "safe"

\* C25: when computeDerivedData reports remainingCredits = 0 for a profile
\* with monthlyCredits > 0 and a danger threshold of at most 1, it reports
\* riskLevel = danger, and generateAdvice on those metrics returns queue_risk.
C25_NoCreditsLeftIsDanger ==
    (/\ derived # None
     /\ profile.monthlyCredits > 0
     /\ RLe(ToNumber(profile.preferences.notificationThresholds.danger), Whole(1))
     /\ derived.remainingCredits = 0)
        => /\ derived.riskLevel = "danger"
           /\ advice # None => HasRule(advice.items, "queue_risk")

\* no credits are left on the last day of the period, where the early
\* exhaustion rule is silent, and the advice has been generated
C25_Witness ==
    /\ derived # None
    /\ profile.monthlyCredits > 0
    /\ derived.remainingCredits = 0
    /\ derived.remainingDays <= 3
    /\ advice # None
    /\ HasRule(advice.items, "queue_risk")

\* what C26 says of a forecast made with remainingCredits credits left
ExhaustionIsConsistent(remainingCredits, r) ==
    /\ r.daysUntilExhaustion = 0 <=> remainingCredits = 0
    /\ r.daysUntilExhaustion # 0 =>
           (r.daysUntilExhaustion >= 1 \/ r.daysUntilExhaustion = Infinity)
    /\ r.predictedExhaustionDate = Null <=> r.daysUntilExhaustion = Infinity

\* C26: in the metrics of computeDerivedData, daysUntilExhaustion = 0 if and
\* only if remainingCredits = 0; otherwise it is an integer >= 1 or the never
\* sentinel; predictedExhaustionDate is null exactly when it is the sentinel.
\* computeDerivedData takes both fields from predictExhaustionDate, called
\* with its remainingCredits and its forecast rate.
C26_ExhaustionFieldsConsistent ==
    /\ IsCall("computeDerivedData") => ExhaustionIsConsistent(ret.remainingCredits, ret)
    /\ IsCall("renderAdvice") =>
           ExhaustionIsConsistent(ret.derived.remainingCredits, ret.derived)
    /\ IsCall("predictExhaustionDate(double)") =>
           ExhaustionIsConsistent(call.remainingCredits, ret)

\* the item of the given rule in the output
ItemOf(items, id) == items[CHOOSE i \in 1..Len(items) : items[i].id = id]

\* C27: whenever the exhaustion_warning rule fires on the metrics of
\* computeDerivedData, remainingDays >= 1, so the reduced daily rate
\* remainingCredits / remainingDays of its message is finite, and the
\* shortfall remainingDays - daysUntilExhaustion it reports is at least 1.
C27_ExhaustionWarningHasDaysLeft ==
    (advice # None /\ HasRule(advice.items, "exhaustion_warning")) =>
        /\ derived.remainingDays >= 1
        /\ ItemOf(advice.items, "exhaustion_warning").message.shortfall >= 1
        /\ Abs(ItemOf(advice.items, "exhaustion_warning").message.dailyRate) # Infinity

\* the rule fires with the credits gone, where the reduced daily rate is 0
C27_Witness ==
    /\ advice # None
    /\ HasRule(advice.items, "exhaustion_warning")
    /\ derived.remainingCredits = 0
    /\ derived.daysUntilExhaustion = 0
    /\ ItemOf(advice.items, "exhaustion_warning").message.shortfall = derived.remainingDays

\* the values four reads of the clock during a step from `now` can return
\* when all four fall on one local calendar day
SameDayReads ==
    { reads \in [1..4 -> {now, now + 1}] :
          \A i \in 1..4 : formatDate(reads[i]) = formatDate(reads[1]) }

\* the instants of the local calendar day `day`
InstantsOfDay(day) == { day * TicksPerDay - tz + h : h \in 0..(TicksPerDay - 1) }

\* C28: within one render pass every use of the current date is a use of the
\* same calendar day, although the clock is read separately each time: the
\* metrics are those that four reads on one day give, and the weekday test of
\* the weekend_boost_suggestion rule is made on the day the metrics report.
C28_RenderPassUsesOneDay ==
    [][ /\ op' = "computeDerivedData" =>
               \E reads \in SameDayReads :
                   derived' = computeDerivedData(profile, expenses,
                                  reads[1], reads[2], reads[3], reads[4])
        /\ op' = "generateAdvice" =>
               \E today \in InstantsOfDay(derived.today) :
                   advice'.items = generateAdvice(profile, derived, expenses, today)
      ]_vars

\* the expense list without the records whose id is the given one: nothing
\* with that id is left, every other record is still there, and two records
\* that are left stand in the order they stood in before
IsListWithout(after, before, id) ==
    /\ \A k \in DOMAIN after : after[k].id # id
    /\ Len(after) = Cardinality({i \in DOMAIN before : before[i].id # id})
    /\ \A i \in DOMAIN before :
           before[i].id # id => \E k \in DOMAIN after : after[k] = before[i]
    /\ \A a, b \in DOMAIN after :
           a < b => \E i, j \in DOMAIN before :
                        i < j /\ before[i] = after[a] /\ before[j] = after[b]

IsListOfRecords(list, null) == \A i \in DOMAIN list : list[i] # null

\* C21: a failed load (the stored text is not JSON) leaves the app in the
\* empty starting state and the stored text as it was; an import leaves the
\* pair in memory and the stored document as they were, or empty, unless it
\* took a backup whose expenses are a list of records: a malformed list is
\* never assigned, saved or given to computeDerivedData
C21_MalformedDocumentNeverTaken ==
    [][ /\ (op' = "init" /\ storage = UnparseableText) =>
               /\ profile' = None
               /\ expenses' = <<>>
               /\ derived' = None
               /\ storage' = storage
        /\ op' = "importState(file)" =>
               \/ /\ profile' = profile
                  /\ expenses' = expenses
                  /\ storage' = storage
               \/ /\ profile' = None
                  /\ expenses' = <<>>
                  /\ storage' = None
               \/ /\ IsListOfRecords(expenses', None)
                  /\ IsListOfRecords(storage'.expenses, JsonNull)
      ]_vars

\* the stored document, read back, is the pair in memory
StoredEqualsMemory == storage' # None /\ JSONparse(storage') = [profile |-> profile', expenses |-> expenses']

NothingChanged == profile' = profile /\ expenses' = expenses /\ storage' = storage

\* C29: after a setup submit, an expense submit or a preference update, the
\* stored document equals the pair in memory, or the submission was rejected
\* and neither memory nor storage changed; after a confirmed delete and an
\* accepted import the stored document equals the pair in memory; after a
\* confirmed clear nothing is stored and memory is profile = null,
\* expenses = []
C29_PersistenceMirrorsMemory ==
    [][ /\ op' \in {"handleSetupSubmit", "handleExpenseSubmit",
                    "handlePreferencesSubmit"} =>
               StoredEqualsMemory \/ NothingChanged
        /\ (op' = "confirmOk" /\ modal.action = "deleteExpense") =>
               StoredEqualsMemory
        /\ op' = "importState" => StoredEqualsMemory
        /\ (op' = "confirmOk" /\ modal.action = "clearData") =>
               /\ storage' = None
               /\ profile' = None
               /\ expenses' = <<>>
      ]_vars

\* C30: this.expenses is ordered by date, latest first, after every load,
\* import, expense submit and delete (stated for the lists of records: a list
\* with a null entry has no order by date)
C30_ExpensesLatestDateFirst ==
    IsListOfRecords(expenses, None) =>
        \A i, j \in DOMAIN expenses :
            i < j => expenses[i].date >= expenses[j].date
=============================================================================
